---- MODULE Spec2Model ----
(***************************************************************************)
(* Home_budget: a Telegram bot that walks a user through entering an       *)
(* expense or an income, appends the confirmed entry as a row of a Google  *)
(* sheet, and can show or delete the last rows.                            *)
(*                                                                         *)
(* Message texts are sequences of characters (one-character strings; an    *)
(* emoji code point is one named token such as "RI_R"), so that parsing,   *)
(* trimming and substring tests are computed and not assumed.              *)
(***************************************************************************)
EXTENDS Integers, Sequences, FiniteSets, TLC

VARIABLES
    user_data,      \* ExpenseHandler.user_data  : user id -> session dict
    inc_data,       \* IncomeHandler.user_data   : user id -> session dict
    ana_data,       \* AnalyticsHandler.user_data: user id -> session dict
    expense_sheet,  \* rows of workbook.sheet1, in sheet order
    income_sheet,   \* rows of the "income" worksheet, in sheet order
    dp,             \* the dispatcher: the handler groups registered, in order
    categories,     \* settings.CATEGORIES as configured
    now,            \* the clock, in days
    out,            \* what the last handled event produced (replies, store calls)
    boot,           \* init_database: position, attempt, waits made, income worksheet present
    pending         \* handlers suspended at an awaited reply, oldest first

vars == <<user_data, inc_data, ana_data, expense_sheet, income_sheet, dp, categories, now, out, boot, pending>>

----------------------------------------------------------------------------
(* Program constants *)

MAX_VALUE == 10000000
MAX_DESCRIPTION_LENGTH == 200
MAX_RETRIES == 3

(* Bounds of the model *)

MaxRows == 3          \* rows the workbook may hold, over both sheets, before appends fail
DaysPerMonth == 1     \* days in a month of the model's calendar
MaxDigits == 9        \* digits of a mantissa the parser keeps exact
MaxDay == 2           \* the last day the clock reaches
MaxInFlight == 2      \* handlers that may be suspended at a reply at once

----------------------------------------------------------------------------
(* Characters and strings *)

Whitespace == {" ", "\t", "\n"}
Digits == {"0", "1", "2", "3", "4", "5", "6", "7", "8", "9"}

DigitVal(c) ==
    CASE c = "0" -> 0 [] c = "1" -> 1 [] c = "2" -> 2 [] c = "3" -> 3
      [] c = "4" -> 4 [] c = "5" -> 5 [] c = "6" -> 6 [] c = "7" -> 7
      [] c = "8" -> 8 [] c = "9" -> 9

\* str.lower() of one character
LowerChar(c) ==
    CASE c = "A" -> "a" [] c = "B" -> "b" [] c = "C" -> "c" [] c = "D" -> "d"
      [] c = "E" -> "e" [] c = "F" -> "f" [] c = "G" -> "g" [] c = "H" -> "h"
      [] c = "I" -> "i" [] c = "J" -> "j" [] c = "K" -> "k" [] c = "L" -> "l"
      [] c = "M" -> "m" [] c = "N" -> "n" [] c = "O" -> "o" [] c = "P" -> "p"
      [] c = "Q" -> "q" [] c = "R" -> "r" [] c = "S" -> "s" [] c = "T" -> "t"
      [] c = "U" -> "u" [] c = "V" -> "v" [] c = "W" -> "w" [] c = "X" -> "x"
      [] c = "Y" -> "y" [] c = "Z" -> "z"
      [] OTHER -> c

Lower(s) == [i \in 1..Len(s) |-> LowerChar(s[i])]

\* str.upper() of one character, for str.capitalize()
UpperChar(c) ==
    CASE c = "a" -> "A" [] c = "b" -> "B" [] c = "c" -> "C" [] c = "d" -> "D"
      [] c = "e" -> "E" [] c = "f" -> "F" [] c = "g" -> "G" [] c = "h" -> "H"
      [] c = "i" -> "I" [] c = "j" -> "J" [] c = "k" -> "K" [] c = "l" -> "L"
      [] c = "m" -> "M" [] c = "n" -> "N" [] c = "o" -> "O" [] c = "p" -> "P"
      [] c = "q" -> "Q" [] c = "r" -> "R" [] c = "s" -> "S" [] c = "t" -> "T"
      [] c = "u" -> "U" [] c = "v" -> "V" [] c = "w" -> "W" [] c = "x" -> "X"
      [] c = "y" -> "Y" [] c = "z" -> "Z"
      [] OTHER -> c

\* str.capitalize(): first character upper-cased, the rest lower-cased
Capitalize(s) ==
    [i \in 1..Len(s) |-> IF i = 1 THEN UpperChar(s[i]) ELSE LowerChar(s[i])]

\* index of the first / last character that is not whitespace (0 if none)
FirstNonSpace(s) ==
    IF \E i \in 1..Len(s) : s[i] \notin Whitespace
    THEN CHOOSE i \in 1..Len(s) :
            /\ s[i] \notin Whitespace
            /\ \A j \in 1..(i - 1) : s[j] \in Whitespace
    ELSE 0

LastNonSpace(s) ==
    IF \E i \in 1..Len(s) : s[i] \notin Whitespace
    THEN CHOOSE i \in 1..Len(s) :
            /\ s[i] \notin Whitespace
            /\ \A j \in (i + 1)..Len(s) : s[j] \in Whitespace
    ELSE 0

\* str.strip()
Strip(s) ==
    IF FirstNonSpace(s) = 0 THEN <<>>
    ELSE SubSeq(s, FirstNonSpace(s), LastNonSpace(s))

\* sub in s
Contains(s, sub) ==
    \E i \in 1..(Len(s) - Len(sub) + 1) : SubSeq(s, i, i + Len(sub) - 1) = sub

\* a string of n copies of character c
Repeat(c, n) == [i \in 1..n |-> c]

\* the first whitespace-delimited word of s
FirstWord(s) ==
    LET t == Strip(s)
    IN  IF \E i \in 1..Len(t) : t[i] \in Whitespace
        THEN SubSeq(t, 1, (CHOOSE i \in 1..Len(t) :
                /\ t[i] \in Whitespace
                /\ \A j \in 1..(i - 1) : t[j] \notin Whitespace) - 1)
        ELSE t

----------------------------------------------------------------------------
(* float(): Python's parser of a numeric string.  A float is a record      *)
(* [k, m, e]: k = "num" for the decimal m * 10^e (m has no trailing zero), *)
(* "inf" for an infinity of sign m, "nan" for not-a-number, and "err" for  *)
(* the ValueError float() raises.                                          *)

Pow10(n) == IF n <= 0 THEN 1 ELSE
    CASE n = 1 -> 10 [] n = 2 -> 100 [] n = 3 -> 1000 [] n = 4 -> 10000
      [] n = 5 -> 100000 [] n = 6 -> 1000000 [] n = 7 -> 10000000
      [] n = 8 -> 100000000 [] OTHER -> 1000000000

FloatErr == [k |-> "err", m |-> 0, e |-> 0]
FloatNan == [k |-> "nan", m |-> 0, e |-> 0]
FloatInf(sign) == [k |-> "inf", m |-> sign, e |-> 0]

RECURSIVE Normalize(_, _)
Normalize(m, e) ==
    IF m = 0 THEN [k |-> "num", m |-> 0, e |-> 0]
    ELSE IF m % 10 = 0 THEN Normalize(m \div 10, e + 1)
    ELSE [k |-> "num", m |-> m, e |-> e]

\* digitpart ::= digit (["_"] digit)*
IsDigitPart(s) ==
    /\ Len(s) > 0
    /\ \A i \in 1..Len(s) : s[i] \in Digits \cup {"_"}
    /\ s[1] # "_" /\ s[Len(s)] # "_"
    /\ \A i \in 1..(Len(s) - 1) : ~(s[i] = "_" /\ s[i + 1] = "_")

OnlyDigits(s) == SelectSeq(s, LAMBDA c : c \in Digits)

RECURSIVE DigitsToInt(_)
DigitsToInt(s) ==
    IF Len(s) = 0 THEN 0
    ELSE 10 * DigitsToInt(SubSeq(s, 1, Len(s) - 1)) + DigitVal(s[Len(s)])

\* position of the first character of s that is in set cs (0 if none)
IndexOf(s, cs) ==
    IF \E i \in 1..Len(s) : s[i] \in cs
    THEN CHOOSE i \in 1..Len(s) : s[i] \in cs /\ \A j \in 1..(i - 1) : s[j] \notin cs
    ELSE 0

\* [sign] digitpart of an exponent; <<ok, value>>
ParseExponent(s) ==
    LET signed == Len(s) > 0 /\ s[1] \in {"+", "-"}
        body == IF signed THEN Tail(s) ELSE s
    IN  IF ~IsDigitPart(body) \/ Len(OnlyDigits(body)) > MaxDigits THEN <<FALSE, 0>>
        ELSE <<TRUE, (IF signed /\ s[1] = "-" THEN -1 ELSE 1) * DigitsToInt(OnlyDigits(body))>>

\* floatnumber ::= pointfloat | exponentfloat, without its sign
ParseDecimal(s) ==
    LET ePos == IndexOf(s, {"e", "E"})
        mant == IF ePos = 0 THEN s ELSE SubSeq(s, 1, ePos - 1)
        expo == IF ePos = 0 THEN <<TRUE, 0>> ELSE ParseExponent(SubSeq(s, ePos + 1, Len(s)))
        dot == IndexOf(mant, {"."})
        ip == IF dot = 0 THEN mant ELSE SubSeq(mant, 1, dot - 1)
        fp == IF dot = 0 THEN <<>> ELSE SubSeq(mant, dot + 1, Len(mant))
        wellFormed ==
            /\ expo[1]
            /\ Len(ip) = 0 \/ IsDigitPart(ip)
            /\ Len(fp) = 0 \/ IsDigitPart(fp)
            /\ Len(ip) > 0 \/ Len(fp) > 0
        ds == OnlyDigits(ip) \o OnlyDigits(fp)
    IN  IF ~wellFormed \/ Len(ds) > MaxDigits THEN FloatErr
        ELSE Normalize(DigitsToInt(ds), expo[2] - Len(OnlyDigits(fp)))

\* float(text)
PyFloat(text) ==
    LET t == Strip(text)
        signed == Len(t) > 0 /\ t[1] \in {"+", "-"}
        sign == IF signed /\ t[1] = "-" THEN -1 ELSE 1
        body == IF signed THEN Tail(t) ELSE t
        low == Lower(body)
    IN  IF low = <<"n", "a", "n">> THEN FloatNan
        ELSE IF low \in {<<"i", "n", "f">>, <<"i", "n", "f", "i", "n", "i", "t", "y">>}
             THEN FloatInf(sign)
        ELSE LET d == ParseDecimal(body)
             IN  IF d.k = "err" THEN d ELSE [d EXCEPT !.m = sign * d.m]

\* x <= 0 and x > MAX_VALUE on floats: every comparison with a NaN is false
LeZeroNever(x) == FALSE
LeZero(x) == (x.k = "num" /\ x.m <= 0) \/ (x.k = "inf" /\ x.m < 0)

GtInt(x, n) ==
    \/ x.k = "inf" /\ x.m > 0
    \/ /\ x.k = "num" /\ x.m > 0
       /\ IF x.e >= 0
          THEN x.e > 9 \/ x.m > n \div Pow10(x.e)
          ELSE x.e >= -9 /\ x.m \div Pow10(-x.e) >= n

----------------------------------------------------------------------------
(* utils.py: the validators.  A result is [exc, val]: exc = "none" and the *)
(* returned value, or the exception raised and its message.                *)

Returned(v) == [exc |-> "none", val |-> v]
Raised(e, msg) == [exc |-> e, val |-> msg]

ValidateValueNoRange(value) ==
    LET num_value == PyFloat(value)
    IN  IF num_value.k = "err"
        THEN Raised("ValidationError", "Please enter a valid number")
        ELSE Returned(num_value)

validate_value(value) ==
    LET num_value == PyFloat(value)
    IN  IF num_value.k = "err"
        THEN Raised("ValidationError", "Please enter a valid number")
        ELSE IF LeZero(num_value) \/ GtInt(num_value, MAX_VALUE)
        THEN Raised("ValidationError", "Value must be between 0 and MAX_VALUE")
        ELSE Returned(num_value)

ValidateDescriptionNoLimit(description) ==
    IF Len(Strip(description)) = 0
    THEN Raised("ValidationError", "Description cannot be empty")
    ELSE Returned(Strip(description))

validate_description(description) ==
    IF Len(Strip(description)) = 0
    THEN Raised("ValidationError", "Description cannot be empty")
    ELSE IF Len(description) > MAX_DESCRIPTION_LENGTH
    THEN Raised("ValidationError", "Description cannot be longer than MAX_DESCRIPTION_LENGTH characters")
    ELSE Returned(Strip(description))

\* str(x) for the floats the validators let through, and "%d"-style digits
DigitChar(n) ==
    CASE n = 0 -> "0" [] n = 1 -> "1" [] n = 2 -> "2" [] n = 3 -> "3"
      [] n = 4 -> "4" [] n = 5 -> "5" [] n = 6 -> "6" [] n = 7 -> "7"
      [] n = 8 -> "8" [] n = 9 -> "9"

RECURSIVE IntToChars(_)
IntToChars(n) ==
    IF n < 10 THEN <<DigitChar(n)>>
    ELSE Append(IntToChars(n \div 10), DigitChar(n % 10))

\* repr of a float: "150.5", "10000000.0", "0.01", "nan", "inf"
PyStr(x) ==
    IF x.k = "nan" THEN <<"n", "a", "n">>
    ELSE IF x.k = "inf" THEN (IF x.m < 0 THEN <<"-">> ELSE <<>>) \o <<"i", "n", "f">>
    ELSE LET neg == IF x.m < 0 THEN <<"-">> ELSE <<>>
             ds == IntToChars(IF x.m < 0 THEN -x.m ELSE x.m)
         IN  IF x.e >= 0 THEN neg \o ds \o Repeat("0", x.e) \o <<".", "0">>
             ELSE IF Len(ds) > -x.e
                  THEN neg \o SubSeq(ds, 1, Len(ds) + x.e) \o <<".">>
                           \o SubSeq(ds, Len(ds) + x.e + 1, Len(ds))
             ELSE neg \o <<"0", ".">> \o Repeat("0", (-x.e) - Len(ds)) \o ds

----------------------------------------------------------------------------
(* Message texts: the trigger labels of the keyboards and the commands *)

START_COMMAND == <<"/", "s", "t", "a", "r", "t">>
HELP_COMMAND == <<"/", "h", "e", "l", "p">>
RUB_LABEL == <<"R", "U", "B", " ", "RI_R", "RI_U">>
RSD_LABEL == <<"R", "S", "D", " ", "RI_R", "RI_S">>
YES == <<"Y", "e", "s">>
NO == <<"N", "o">>
YES_LOWER == <<"y", "e", "s">>
SHOW_LAST_3 == <<"S", "h", "o", "w", " ", "L", "a", "s", "t", " ", "3", " ", "E", "n", "t", "r", "i", "e", "s", " ", "SCROLL">>
DELETE_LAST == <<"D", "e", "l", "e", "t", "e", " ", "l", "a", "s", "t", " ", "r", "o", "w", " ", "WASTEBASKET", "VS16">>
INCOME_MENU == <<"I", "n", "c", "o", "m", "e", " ", "m", "e", "n", "u", " ", "MONEY_BAG">>
SHOW_ANALYTICS == <<"S", "h", "o", "w", " ", "a", "n", "a", "l", "y", "t", "i", "c", "s", " ", "BAR_CHART">>
BACK == <<"B", "a", "c", "k", " ", "BACK_ARROW">>
TWO_MONTHS == <<"T", "w", "o", " ", "m", "o", "n", "t", "h", "s", " ", "CALENDAR">>
SINGLE_CATEGORY == <<"S", "i", "n", "g", "l", "e", " ", "c", "a", "t", "e", "g", "o", "r", "y", " ", "c", "h", "a", "r", "t", " ", "BAR_CHART">>
LAST_YEAR == <<"L", "a", "s", "t", " ", "y", "e", "a", "r", " ", "SPIRAL_CALENDAR", "VS16">>
INCOME_RUB == <<"I", "n", "c", "o", "m", "e", " ", "R", "U", "B", " ", "RI_R", "RI_U">>
INCOME_RSD == <<"I", "n", "c", "o", "m", "e", " ", "R", "S", "D", " ", "RI_R", "RI_S">>
SHOW_LAST_3_INCOME == <<"S", "h", "o", "w", " ", "L", "a", "s", "t", " ", "3", " ", "I", "n", "c", "o", "m", "e", " ", "E", "n", "t", "r", "i", "e", "s", " ", "SCROLL">>
DELETE_LAST_INCOME == <<"D", "e", "l", "e", "t", "e", " ", "l", "a", "s", "t", " ", "i", "n", "c", "o", "m", "e", " ", "r", "o", "w", " ", "WASTEBASKET", "VS16">>
BACK_TO_MAIN == <<"B", "a", "c", "k", " ", "t", "o", " ", "M", "a", "i", "n", " ", "BACK_ARROW">>
RUB == <<"R", "U", "B">>
RSD == <<"R", "S", "D">>
NO_USERNAME == <<"N", "o", " ", "u", "s", "e", "r", "n", "a", "m", "e">>

----------------------------------------------------------------------------
(* settings.py: the static configuration *)

CATEGORIES == << <<"F", "o", "o", "d">>, <<"T", "r", "a", "n", "s", "p", "o", "r", "t">> >>
INCOME_TYPES == << <<"S", "a", "l", "a", "r", "y">>, <<"G", "i", "f", "t">> >>
AUTHORIZED_USERS == {1, 2}

\* x in a Python list
InList(x, list) == \E i \in 1..Len(list) : list[i] = x

(* The senders: Telegram user ids, with message.from_user.username and     *)
(* first_name.  User 2 has no username (None); user 3 is not on the        *)
(* allow-list.                                                             *)
Users == {1, 2, 3}
UsernameOf(u) == IF u = 1 THEN <<"a", "l", "i", "c", "e">>
                 ELSE IF u = 2 THEN <<>> ELSE <<"e", "v", "e">>
FirstNameOf(u) == IF u = 1 THEN <<"A", "l">> ELSE IF u = 2 THEN <<"B", "o", "b">> ELSE <<"E", "v">>

----------------------------------------------------------------------------
(* Sheets.  A cell holds a string (s) or a float (x); a row is a sequence  *)
(* of cells.                                                               *)

NotAFloat == [k |-> "str", m |-> 0, e |-> 0]
S(chars) == [s |-> chars, x |-> NotAFloat]
F(float) == [s |-> <<>>, x |-> float]

EXPENSE_HEADERS == << S(<<"d", "a", "t", "e">>), S(<<"v", "a", "l", "u", "e">>),
    S(<<"d", "e", "s", "c", "r", "i", "p", "t", "i", "o", "n">>),
    S(<<"c", "a", "t", "e", "g", "o", "r", "y">>),
    S(<<"p", "a", "y", "m", "e", "n", "t", "_", "t", "y", "p", "e">>),
    S(<<"y", "e", "a", "r", "_", "m", "o", "n", "t", "h">>), S(<<"u", "s", "e", "r">>) >>

INCOME_HEADERS == << S(<<"d", "a", "t", "e">>), S(<<"v", "a", "l", "u", "e">>),
    S(<<"d", "e", "s", "c", "r", "i", "p", "t", "i", "o", "n">>),
    S(<<"t", "y", "p", "e">>),
    S(<<"p", "a", "y", "m", "e", "n", "t", "_", "t", "y", "p", "e">>),
    S(<<"y", "e", "a", "r", "_", "m", "o", "n", "t", "h">>), S(<<"u", "s", "e", "r">>) >>

\* list[-count:]
LastRowsAll(rows, count) == rows
LastRows(rows, count) ==
    IF Len(rows) <= count THEN rows ELSE SubSeq(rows, Len(rows) - count + 1, Len(rows))

\* worksheet.delete_rows(index): rows are numbered from 1; a position past
\* the last row holding values is an empty row of the grid
DeleteRowsLast(rows, index) == SubSeq(rows, 1, Len(rows) - 1)
DeleteRows(rows, index) ==
    IF index \in 1..Len(rows)
    THEN SubSeq(rows, 1, index - 1) \o SubSeq(rows, index + 1, Len(rows))
    ELSE rows

----------------------------------------------------------------------------
(* The clock and strftime *)

TwoDigits(n) == <<DigitChar(n \div 10), DigitChar(n % 10)>>
MonthOf(day) == 1 + (day \div DaysPerMonth)
DayOf(day) == 1 + (day % DaysPerMonth)

\* strftime("%Y-%m")
FormatYearMonth(day) == <<"2", "0", "2", "6", "-">> \o TwoDigits(MonthOf(day))
\* strftime("%Y-%m-%d")
FormatDate(day) == FormatYearMonth(day) \o <<"-">> \o TwoDigits(DayOf(day))

----------------------------------------------------------------------------
(* Sessions: user_data is a dict from user id to a dict of fields *)

EmptyDict == [k \in {} |-> TRUE]

\* d.get(u, {})
Get(d, u) == IF u \in DOMAIN d THEN d[u] ELSE EmptyDict
\* d.get(u, {}).get('step')
StepOf(d, u) == IF "step" \in DOMAIN Get(d, u) THEN Get(d, u).step ELSE "None"
PutShared(d, u, session) == [x \in (DOMAIN d) \cup {u} |-> session]

\* d[u] = session
Put(d, u, session) == [x \in (DOMAIN d) \cup {u} |-> IF x = u THEN session ELSE d[x]]
\* session[key] = v
SetKey(session, key, v) ==
    [x \in (DOMAIN session) \cup {key} |-> IF x = key THEN v ELSE session[x]]

InitialSession == [step |-> "payment_type"]

----------------------------------------------------------------------------
(* Replies and store calls of the event being handled *)

UNAUTHORIZED == "Sorry, you are not authorized to use this bot."

Msg(text) == [text |-> text, data |-> <<>>]
MsgData(text, rows) == [text |-> text, data |-> rows]
Call(op, row, index, ok) == [op |-> op, row |-> row, index |-> index, ok |-> ok]

Out(h, u, replies, calls) == [handler |-> h, user |-> u, replies |-> replies, calls |-> calls]

\* BaseHandler._is_authorized
IsAuthorizedAnyone(user_id) == TRUE
_is_authorized(user_id) == user_id \in AUTHORIZED_USERS

----------------------------------------------------------------------------
(* The dispatcher.  dp holds the registered handlers in registration       *)
(* order; a message goes to the first handler whose filter accepts it.     *)

\* commands=[name]: the text starts with the prefix "/" and its first word,
\* in any case, is "/" + name
IsCommand(t, name) ==
    /\ Len(t) > 0 /\ t[1] = "/"
    /\ Lower(FirstWord(t)) = <<"/">> \o name

ExpenseHandlersStepsFirst == << "start", "handle_value",
    "handle_description", "handle_category", "handle_confirmation",
    "show_last_three_entries", "delete_last_row_confirm",
    "handle_delete_confirmation", "handle_payment_type", "handle_income_menu",
    "help_command" >>

ExpenseHandlers == << "start", "handle_payment_type", "handle_value",
    "handle_description", "handle_category", "handle_confirmation",
    "show_last_three_entries", "delete_last_row_confirm",
    "handle_delete_confirmation", "handle_income_menu", "help_command" >>

AnalyticsHandlers == << "analytics_button", "back_button",
    "show_analytics_two_months", "single_category_chart",
    "handle_single_category_selection", "show_last_year_chart" >>

IncomeHandlers == << "handle_income_currency_selection", "handle_income_value",
    "handle_income_description", "handle_income_type",
    "handle_income_confirmation", "show_last_three_income_entries",
    "delete_last_income_row_confirm", "handle_income_delete_confirmation",
    "handle_back_to_main" >>

InIncomeMenu(u) ==
    IF "in_income_menu" \in DOMAIN Get(user_data, u)
    THEN Get(user_data, u).in_income_menu ELSE FALSE

\* the filter each handler is registered with
Filter(h, u, t) ==
    CASE h = "start" -> IsCommand(t, <<"s", "t", "a", "r", "t">>)
      [] h = "handle_payment_type" -> t \in {RUB_LABEL, RSD_LABEL} /\ ~InIncomeMenu(u)
      [] h = "handle_value" -> StepOf(user_data, u) = "value"
      [] h = "handle_description" -> StepOf(user_data, u) = "description"
      [] h = "handle_category" -> StepOf(user_data, u) = "category"
      [] h = "handle_confirmation" ->
            StepOf(user_data, u) = "confirmation" /\ t \in {YES, NO}
      [] h = "show_last_three_entries" -> t = SHOW_LAST_3
      [] h = "delete_last_row_confirm" -> t = DELETE_LAST
      [] h = "handle_delete_confirmation" -> StepOf(user_data, u) = "delete_confirmation"
      [] h = "handle_income_menu" -> t = INCOME_MENU
      [] h = "help_command" -> IsCommand(t, <<"h", "e", "l", "p">>)
      [] h = "analytics_button" -> t = SHOW_ANALYTICS
      [] h = "back_button" -> t = BACK
      [] h = "show_analytics_two_months" -> t = TWO_MONTHS
      [] h = "single_category_chart" -> t = SINGLE_CATEGORY
      [] h = "handle_single_category_selection" ->
            StepOf(ana_data, u) = "single_category_selection"
      [] h = "show_last_year_chart" -> t = LAST_YEAR
      [] h = "handle_income_currency_selection" -> t \in {INCOME_RUB, INCOME_RSD}
      [] h = "handle_income_value" -> StepOf(inc_data, u) = "income_value"
      [] h = "handle_income_description" -> StepOf(inc_data, u) = "income_description"
      [] h = "handle_income_type" -> StepOf(inc_data, u) = "income_type"
      [] h = "handle_income_confirmation" ->
            StepOf(inc_data, u) = "income_confirmation" /\ t \in {YES, NO}
      [] h = "show_last_three_income_entries" -> t = SHOW_LAST_3_INCOME
      [] h = "delete_last_income_row_confirm" -> t = DELETE_LAST_INCOME
      [] h = "handle_income_delete_confirmation" ->
            StepOf(inc_data, u) = "income_delete_confirmation"
      [] h = "handle_back_to_main" -> t = BACK_TO_MAIN

\* the dispatcher gives the message to handler h: h's filter accepts it and
\* the filter of no handler registered before h does
RoutedTo(h, u, t) ==
    /\ Filter(h, u, t)
    /\ \E i \in 1..Len(dp) :
          /\ dp[i] = h
          /\ \A j \in 1..(i - 1) : ~Filter(dp[j], u, t)

\* the handler the dispatcher gives the message to ("none": no filter accepts)
Route(u, t) ==
    IF \E i \in 1..Len(dp) : RoutedTo(dp[i], u, t)
    THEN CHOOSE h \in {dp[i] : i \in 1..Len(dp)} : RoutedTo(h, u, t)
    ELSE "none"

----------------------------------------------------------------------------
(* ExpenseHandler *)

ExpenseFrame == UNCHANGED <<inc_data, ana_data, income_sheet, dp, categories, now, boot, pending>>

Start(u, t) ==
    /\ RoutedTo("start", u, t)
    /\ IF ~_is_authorized(u)
       THEN /\ out' = Out("start", u, <<Msg(UNAUTHORIZED)>>, <<>>)
            /\ UNCHANGED user_data
       ELSE /\ user_data' = Put(user_data, u, InitialSession)
            /\ out' = Out("start", u, <<Msg("Hello, let's start!")>>, <<>>)
    /\ UNCHANGED expense_sheet
    /\ ExpenseFrame

\* the session handle_payment_type stores
PaymentTypeSessionMerged(u, t) ==
    LET payment_type == IF Contains(t, RUB) THEN RUB ELSE RSD
    IN  SetKey(SetKey(SetKey(SetKey(Get(user_data, u), "payment_type", payment_type),
            "date", FormatDate(now)), "year_month", FormatYearMonth(now)),
            "step", "value")

PaymentTypeSessionUnstamped(u, t) ==
    LET payment_type == IF Contains(t, RUB) THEN RUB ELSE RSD
    IN  [payment_type |-> payment_type, step |-> "value"]

PaymentTypeSession(u, t) ==
    LET payment_type == IF Contains(t, RUB) THEN RUB ELSE RSD
    IN  [payment_type |-> payment_type,
         date |-> FormatDate(now),
         year_month |-> FormatYearMonth(now),
         step |-> "value"]

HandlePaymentType(u, t) ==
    /\ RoutedTo("handle_payment_type", u, t)
    /\ IF ~_is_authorized(u)
       THEN /\ out' = Out("handle_payment_type", u, <<Msg(UNAUTHORIZED)>>, <<>>)
            /\ UNCHANGED user_data
       ELSE /\ user_data' = Put(user_data, u, PaymentTypeSession(u, t))
            /\ out' = Out("handle_payment_type", u, <<MsgData("You selected. Now enter the expense amount:",
                                       << <<S(PaymentTypeSession(u, t).payment_type)>> >>)>>, <<>>)
    /\ UNCHANGED expense_sheet
    /\ ExpenseFrame

HandleValue(u, t) ==
    /\ RoutedTo("handle_value", u, t)
    /\ LET r == validate_value(t)
       IN  IF r.exc = "none"
           THEN /\ user_data' = Put(user_data, u,
                        SetKey(SetKey(user_data[u], "value", r.val), "step", "description"))
                /\ out' = Out("handle_value", u, <<Msg("Enter the description:")>>, <<>>)
           ELSE /\ out' = Out("handle_value", u, <<Msg(r.val)>>, <<>>)
                /\ UNCHANGED user_data
    /\ UNCHANGED expense_sheet
    /\ ExpenseFrame

HandleDescription(u, t) ==
    /\ RoutedTo("handle_description", u, t)
    /\ LET r == validate_description(t)
       IN  IF r.exc = "none"
           THEN /\ user_data' = Put(user_data, u,
                        SetKey(SetKey(user_data[u], "description", r.val), "step", "category"))
                /\ out' = Out("handle_description", u, <<Msg("Choose a category:")>>, <<>>)
           ELSE /\ out' = Out("handle_description", u, <<Msg(r.val)>>, <<>>)
                /\ UNCHANGED user_data
    /\ UNCHANGED expense_sheet
    /\ ExpenseFrame

\* the membership test of handle_category
CategoryAcceptedAny(text) == TRUE
CategoryAccepted(text) == InList(text, categories)

SummaryFields == {"date", "value", "description", "category", "payment_type", "year_month"}

\* the fields a confirmation summary and a row are built from
SummaryRow(data) ==
    << S(data.date), F(data.value), S(data.description), S(data.category),
       S(data.payment_type), S(data.year_month) >>

HandleCategory(u, t) ==
    /\ RoutedTo("handle_category", u, t)
    /\ IF ~CategoryAccepted(t)
       THEN /\ out' = Out("handle_category", u, <<Msg("Invalid category. Please choose a valid category.")>>, <<>>)
            /\ UNCHANGED user_data
       ELSE LET data == SetKey(SetKey(user_data[u], "category", t), "step", "confirmation")
            IN  /\ user_data' = Put(user_data, u, data)
                /\ IF SummaryFields \subseteq DOMAIN data
                   THEN out' = Out("handle_category", u, <<MsgData("Confirm? (Yes/No)", <<SummaryRow(data)>>)>>, <<>>)
                   ELSE out' = Out("handle_category", u, <<Msg("Sorry, something went wrong. Please try again later.")>>, <<>>)
    /\ UNCHANGED expense_sheet
    /\ ExpenseFrame

\* the row handle_confirmation hands to append_row
ExpenseRowUnordered(data, u) ==
    << S(data.date), F(data.value), S(data.category), S(data.description),
       S(data.payment_type), S(data.year_month),
       S(IF Len(UsernameOf(u)) > 0 THEN UsernameOf(u) ELSE NO_USERNAME) >>

ExpenseRowToday(data, u) ==
    << S(FormatDate(now)), F(data.value), S(data.description), S(data.category),
       S(data.payment_type), S(FormatYearMonth(now)),
       S(IF Len(UsernameOf(u)) > 0 THEN UsernameOf(u) ELSE NO_USERNAME) >>

ExpenseRow(data, u) ==
    << S(data.date), F(data.value), S(data.description), S(data.category),
       S(data.payment_type), S(data.year_month),
       S(IF Len(UsernameOf(u)) > 0 THEN UsernameOf(u) ELSE NO_USERNAME) >>

\* the session the finally clause of a confirmation handler stores
AfterConfirmationKept(u) == Get(user_data, u)
AfterConfirmation(u) == InitialSession

HandleConfirmation(u, t) ==
    /\ RoutedTo("handle_confirmation", u, t)
    /\ IF t = YES
       THEN LET data == user_data[u]
            IN  IF SummaryFields \subseteq DOMAIN data
                THEN \E ok \in BOOLEAN :
                        /\ Len(expense_sheet) + Len(income_sheet) < MaxRows \/ ~ok
                        /\ expense_sheet' = IF ok THEN Append(expense_sheet, ExpenseRow(data, u))
                                            ELSE expense_sheet
                        /\ out' = Out("handle_confirmation", u,
                              <<Msg(IF ok THEN "Expense recorded successfully!"
                                    ELSE "Failed to record expense. Please try again later.")>>,
                              <<Call("append_row", ExpenseRow(data, u), 0, ok)>>)
                ELSE /\ UNCHANGED expense_sheet
                     /\ out' = Out("handle_confirmation", u, <<Msg("Failed to record expense. Please try again later.")>>, <<>>)
       ELSE /\ UNCHANGED expense_sheet
            /\ out' = Out("handle_confirmation", u, <<Msg("Expense recording cancelled. Choose payment type:")>>, <<>>)
    /\ user_data' = Put(user_data, u, AfterConfirmation(u))
    /\ ExpenseFrame

NoRow == <<>>

\* "if not rows": the list read from the sheet is empty
NoRowsNever(rows) == FALSE
NoRows(rows) == Len(rows) = 0

ShowLastThreeEntries(u, t) ==
    /\ RoutedTo("show_last_three_entries", u, t)
    /\ \E ok \in BOOLEAN :
          LET last_rows == LastRows(expense_sheet, 3)
          IN  out' = Out("show_last_three_entries", u,
                <<IF ~ok THEN Msg("Failed to fetch entries. Please try again later.")
                  ELSE IF NoRows(last_rows) THEN Msg("No entries found.")
                  ELSE MsgData("Last 3 entries:", last_rows)>>,
                <<Call("get_all_values", NoRow, 0, ok)>>)
    /\ UNCHANGED <<user_data, expense_sheet>>
    /\ ExpenseFrame

DeleteLastRowConfirm(u, t) ==
    /\ RoutedTo("delete_last_row_confirm", u, t)
    /\ \E ok \in BOOLEAN :
          LET all_rows == expense_sheet
              read == <<Call("get_all_values", NoRow, 0, ok)>>
          IN  IF ~ok
              THEN /\ out' = Out("delete_last_row_confirm", u, <<Msg("Failed to prepare deletion. Please try again later.")>>, read)
                   /\ UNCHANGED user_data
              ELSE IF NoRows(all_rows)
              THEN /\ out' = Out("delete_last_row_confirm", u, <<Msg("No data to delete.")>>, read)
                   /\ UNCHANGED user_data
              \* all_rows[-1] of an empty list and user_data[id] of an unknown
              \* user raise, and the handler's except clause replies
              ELSE IF Len(all_rows) = 0 \/ u \notin DOMAIN user_data
              THEN /\ out' = Out("delete_last_row_confirm", u, <<Msg("Failed to prepare deletion. Please try again later.")>>, read)
                   /\ UNCHANGED user_data
              ELSE /\ user_data' = Put(user_data, u,
                          SetKey(SetKey(user_data[u], "step", "delete_confirmation"),
                                 "last_row_index", Len(all_rows)))
                   /\ out' = Out("delete_last_row_confirm", u, <<MsgData("Are you sure you want to delete this entry?",
                                              <<all_rows[Len(all_rows)]>>)>>, read)
    /\ UNCHANGED expense_sheet
    /\ ExpenseFrame

AfterDeleteConfirmationKept(session) == session

\* the finally clause of handle_delete_confirmation
AfterDeleteConfirmation(session) == InitialSession

HandleDeleteConfirmation(u, t) ==
    /\ RoutedTo("handle_delete_confirmation", u, t)
    /\ IF Lower(t) = YES_LOWER
       THEN LET last_row_index ==
                    IF "last_row_index" \in DOMAIN user_data[u]
                    THEN user_data[u].last_row_index ELSE 0
            IN  IF last_row_index # 0
                THEN \E ok \in BOOLEAN :
                        /\ expense_sheet' = IF ok THEN DeleteRows(expense_sheet, last_row_index)
                                            ELSE expense_sheet
                        /\ out' = Out("handle_delete_confirmation", u,
                              <<Msg(IF ok THEN "Last row deleted successfully!"
                                    ELSE "Failed to delete row. Please try again later.")>>,
                              <<Call("delete_rows", NoRow, last_row_index, ok)>>)
                ELSE /\ UNCHANGED expense_sheet
                     /\ out' = Out("handle_delete_confirmation", u, <<Msg("Could not find the last row to delete.")>>, <<>>)
       ELSE /\ UNCHANGED expense_sheet
            /\ out' = Out("handle_delete_confirmation", u, <<Msg("Deletion cancelled.")>>, <<>>)
    /\ user_data' = Put(user_data, u, AfterDeleteConfirmation(user_data[u]))
    /\ ExpenseFrame

HandleIncomeMenu(u, t) ==
    /\ RoutedTo("handle_income_menu", u, t)
    /\ IF ~_is_authorized(u)
       THEN /\ out' = Out("handle_income_menu", u, <<Msg(UNAUTHORIZED)>>, <<>>)
            /\ UNCHANGED user_data
       ELSE /\ user_data' = Put(user_data, u, [in_income_menu |-> TRUE])
            /\ out' = Out("handle_income_menu", u, <<Msg("Income Menu - Choose an option:")>>, <<>>)
    /\ UNCHANGED expense_sheet
    /\ ExpenseFrame

HelpCommand(u, t) ==
    /\ RoutedTo("help_command", u, t)
    /\ IF ~_is_authorized(u)
       THEN out' = Out("help_command", u, <<Msg(UNAUTHORIZED)>>, <<>>)
       ELSE out' = Out("help_command", u, <<Msg("Budget Bot Help")>>, <<>>)
    /\ UNCHANGED <<user_data, expense_sheet>>
    /\ ExpenseFrame

ExpenseEvent(u, t) ==
    \/ Start(u, t)
    \/ HandlePaymentType(u, t)
    \/ HandleValue(u, t)
    \/ HandleDescription(u, t)
    \/ HandleCategory(u, t)
    \/ HandleConfirmation(u, t)
    \/ ShowLastThreeEntries(u, t)
    \/ DeleteLastRowConfirm(u, t)
    \/ HandleDeleteConfirmation(u, t)
    \/ HandleIncomeMenu(u, t)
    \/ HelpCommand(u, t)

----------------------------------------------------------------------------
(* AnalyticsHandler.  What a chart shows is outside the model: a handler   *)
(* that gets past its checks ends in one of its replies.                   *)

AnalyticsFrame == UNCHANGED <<user_data, inc_data, expense_sheet, income_sheet, dp, categories, now, boot, pending>>

ChartOutcomes == {"chart", "No data available for the period.", "Failed to generate chart. Please try again later."}

\* the reply of a chart handler after its authorization check
ChartReplies(ok, outcome) ==
    IF ~ok THEN <<Msg("Failed to generate chart. Please try again later.")>>
    ELSE IF Len(expense_sheet) <= 1 THEN <<Msg("No data available for analytics.")>>
    ELSE <<Msg(outcome)>>

AnalyticsButton(u, t) ==
    /\ RoutedTo("analytics_button", u, t)
    /\ out' = Out("analytics_button", u, <<Msg("Available analytics:")>>, <<>>)
    /\ UNCHANGED ana_data
    /\ AnalyticsFrame

BackButton(u, t) ==
    /\ RoutedTo("back_button", u, t)
    /\ out' = Out("back_button", u, <<Msg("Options:")>>, <<>>)
    /\ UNCHANGED ana_data
    /\ AnalyticsFrame

ShowAnalyticsTwoMonths(u, t) ==
    /\ RoutedTo("show_analytics_two_months", u, t)
    /\ IF ~_is_authorized(u)
       THEN out' = Out("show_analytics_two_months", u, <<Msg(UNAUTHORIZED)>>, <<>>)
       ELSE \E ok \in BOOLEAN, outcome \in ChartOutcomes :
               out' = Out("show_analytics_two_months", u, ChartReplies(ok, outcome), <<Call("get_all_values", NoRow, 0, ok)>>)
    /\ UNCHANGED ana_data
    /\ AnalyticsFrame

SingleCategoryChart(u, t) ==
    /\ RoutedTo("single_category_chart", u, t)
    /\ IF ~_is_authorized(u)
       THEN /\ out' = Out("single_category_chart", u, <<Msg(UNAUTHORIZED)>>, <<>>)
            /\ UNCHANGED ana_data
       ELSE /\ ana_data' = Put(ana_data, u, [step |-> "single_category_selection"])
            /\ out' = Out("single_category_chart", u, <<Msg("Choose a category to view its chart:")>>, <<>>)
    /\ AnalyticsFrame

HandleSingleCategorySelection(u, t) ==
    /\ RoutedTo("handle_single_category_selection", u, t)
    /\ IF ~InList(t, categories)
       THEN out' = Out("handle_single_category_selection", u, <<Msg("Invalid category. Please choose a valid category.")>>, <<>>)
       ELSE \E ok \in BOOLEAN, outcome \in ChartOutcomes :
               out' = Out("handle_single_category_selection", u, ChartReplies(ok, outcome), <<Call("get_all_values", NoRow, 0, ok)>>)
    /\ ana_data' = Put(ana_data, u, InitialSession)
    /\ AnalyticsFrame

ShowLastYearChart(u, t) ==
    /\ RoutedTo("show_last_year_chart", u, t)
    /\ IF ~_is_authorized(u)
       THEN out' = Out("show_last_year_chart", u, <<Msg(UNAUTHORIZED)>>, <<>>)
       ELSE \E ok \in BOOLEAN, outcome \in ChartOutcomes :
               out' = Out("show_last_year_chart", u, ChartReplies(ok, outcome), <<Call("get_all_values", NoRow, 0, ok)>>)
    /\ UNCHANGED ana_data
    /\ AnalyticsFrame

AnalyticsEvent(u, t) ==
    \/ AnalyticsButton(u, t)
    \/ BackButton(u, t)
    \/ ShowAnalyticsTwoMonths(u, t)
    \/ SingleCategoryChart(u, t)
    \/ HandleSingleCategorySelection(u, t)
    \/ ShowLastYearChart(u, t)

----------------------------------------------------------------------------
(* IncomeHandler *)

IncomeFrame == UNCHANGED <<user_data, ana_data, expense_sheet, dp, categories, now, boot, pending>>

IncomeCurrencySession(t) ==
    [payment_type |-> IF Contains(t, RUB) THEN RUB ELSE RSD, step |-> "income_value"]

HandleIncomeCurrencySelection(u, t) ==
    /\ RoutedTo("handle_income_currency_selection", u, t)
    /\ IF ~_is_authorized(u)
       THEN /\ out' = Out("handle_income_currency_selection", u, <<Msg(UNAUTHORIZED)>>, <<>>)
            /\ UNCHANGED inc_data
       ELSE /\ inc_data' = Put(inc_data, u, IncomeCurrencySession(t))
            /\ out' = Out("handle_income_currency_selection", u, <<MsgData("You selected. Now enter the income amount:",
                                       << <<S(IncomeCurrencySession(t).payment_type)>> >>)>>, <<>>)
    /\ UNCHANGED income_sheet
    /\ IncomeFrame

HandleIncomeValue(u, t) ==
    /\ RoutedTo("handle_income_value", u, t)
    /\ LET r == validate_value(t)
       IN  IF r.exc = "none"
           THEN LET data == SetKey(SetKey(inc_data[u], "value", r.val), "step", "income_description")
                IN  /\ inc_data' = Put(inc_data, u, data)
                    /\ IF "payment_type" \in DOMAIN data
                       THEN out' = Out("handle_income_value", u, <<MsgData("Now enter a description for this income:",
                                            << <<F(r.val), S(data.payment_type)>> >>)>>, <<>>)
                       ELSE out' = Out("handle_income_value", u, <<Msg("Failed to process income amount. Please try again.")>>, <<>>)
           ELSE /\ out' = Out("handle_income_value", u, <<Msg(r.val)>>, <<>>)
                /\ UNCHANGED inc_data
    /\ UNCHANGED income_sheet
    /\ IncomeFrame

HandleIncomeDescription(u, t) ==
    /\ RoutedTo("handle_income_description", u, t)
    /\ LET r == validate_description(t)
       IN  IF r.exc = "none"
           THEN /\ inc_data' = Put(inc_data, u,
                        SetKey(SetKey(inc_data[u], "description", r.val), "step", "income_type"))
                /\ out' = Out("handle_income_description", u, <<MsgData("Now select the income type:", << <<S(r.val)>> >>)>>, <<>>)
           ELSE /\ out' = Out("handle_income_description", u, <<Msg(r.val)>>, <<>>)
                /\ UNCHANGED inc_data
    /\ UNCHANGED income_sheet
    /\ IncomeFrame

\* the membership test of handle_income_type
IncomeTypeAcceptedAny(text) == TRUE
IncomeTypeAccepted(text) == InList(text, INCOME_TYPES)

IncomeFields == {"value", "description", "type", "payment_type"}

\* message.from_user.username or message.from_user.first_name
UserLabel(u) == IF Len(UsernameOf(u)) > 0 THEN UsernameOf(u) ELSE FirstNameOf(u)

HandleIncomeType(u, t) ==
    /\ RoutedTo("handle_income_type", u, t)
    /\ IF ~IncomeTypeAccepted(t)
       THEN /\ out' = Out("handle_income_type", u, <<Msg("Invalid income type. Please choose a valid type.")>>, <<>>)
            /\ UNCHANGED inc_data
       ELSE LET data == SetKey(SetKey(inc_data[u], "type", t), "step", "income_confirmation")
            IN  /\ inc_data' = Put(inc_data, u, data)
                /\ IF IncomeFields \subseteq DOMAIN data
                   THEN out' = Out("handle_income_type", u, <<MsgData("Is this correct?",
                            << <<S(FormatDate(now)), F(data.value), S(data.payment_type),
                                 S(data.description), S(data.type), S(UserLabel(u))>> >>)>>, <<>>)
                   ELSE out' = Out("handle_income_type", u, <<Msg("Failed to process income type. Please try again.")>>, <<>>)
    /\ UNCHANGED income_sheet
    /\ IncomeFrame

\* row_data of handle_income_confirmation
IncomeRow(data, u) ==
    << S(FormatDate(now)), S(PyStr(data.value)), S(data.description), S(data.type),
       S(data.payment_type), S(FormatYearMonth(now)), S(UserLabel(u)) >>

HandleIncomeConfirmation(u, t) ==
    /\ RoutedTo("handle_income_confirmation", u, t)
    /\ IF t = YES
       THEN LET data == inc_data[u]
            IN  IF IncomeFields \subseteq DOMAIN data
                THEN \E ok \in BOOLEAN :
                        /\ Len(expense_sheet) + Len(income_sheet) < MaxRows \/ ~ok
                        /\ income_sheet' = IF ok THEN Append(income_sheet, IncomeRow(data, u))
                                           ELSE income_sheet
                        /\ out' = Out("handle_income_confirmation", u,
                              <<IF ok THEN MsgData("Income entry saved successfully!",
                                                   << <<F(data.value), S(data.payment_type), S(data.description)>> >>)
                                ELSE Msg("Failed to process confirmation. Please try again.")>>,
                              <<Call("append_income_row", IncomeRow(data, u), 0, ok)>>)
                        /\ inc_data' = IF ok THEN Put(inc_data, u, EmptyDict) ELSE inc_data
                ELSE /\ UNCHANGED <<income_sheet, inc_data>>
                     /\ out' = Out("handle_income_confirmation", u, <<Msg("Failed to process confirmation. Please try again.")>>, <<>>)
       ELSE /\ UNCHANGED income_sheet
            /\ out' = Out("handle_income_confirmation", u, <<Msg("Income entry cancelled.")>>, <<>>)
            /\ inc_data' = Put(inc_data, u, EmptyDict)
    /\ IncomeFrame

\* reversed(rows)
Reversed(rows) == [i \in 1..Len(rows) |-> rows[Len(rows) + 1 - i]]

ShowLastThreeIncomeEntries(u, t) ==
    /\ RoutedTo("show_last_three_income_entries", u, t)
    /\ IF ~_is_authorized(u)
       THEN out' = Out("show_last_three_income_entries", u, <<Msg(UNAUTHORIZED)>>, <<>>)
       ELSE \E ok \in BOOLEAN :
               out' = Out("show_last_three_income_entries", u,
                 <<IF ~ok THEN Msg("Failed to retrieve income entries. Please try again later.")
                   ELSE IF Len(income_sheet) <= 1 THEN Msg("No income entries found.")
                   ELSE MsgData("Last 3 Income Entries:", Reversed(LastRows(income_sheet, 3)))>>,
                 <<Call("get_all_values", NoRow, 0, ok)>>)
    /\ UNCHANGED <<inc_data, income_sheet>>
    /\ IncomeFrame

DeleteLastIncomeRowConfirm(u, t) ==
    /\ RoutedTo("delete_last_income_row_confirm", u, t)
    /\ IF ~_is_authorized(u)
       THEN /\ out' = Out("delete_last_income_row_confirm", u, <<Msg(UNAUTHORIZED)>>, <<>>)
            /\ UNCHANGED inc_data
       ELSE \E ok \in BOOLEAN :
               LET read == <<Call("get_all_values", NoRow, 0, ok)>>
               IN  IF ~ok
                   THEN /\ out' = Out("delete_last_income_row_confirm", u, <<Msg("Failed to process deletion request. Please try again later.")>>, read)
                        /\ UNCHANGED inc_data
                   ELSE IF Len(income_sheet) <= 1
                   THEN /\ out' = Out("delete_last_income_row_confirm", u, <<Msg("No income entries to delete.")>>, read)
                        /\ UNCHANGED inc_data
                   ELSE /\ inc_data' = Put(inc_data, u, [step |-> "income_delete_confirmation"])
                        /\ out' = Out("delete_last_income_row_confirm", u, <<MsgData("Are you sure you want to delete this income entry?",
                                                   <<income_sheet[Len(income_sheet)]>>)>>, read)
    /\ UNCHANGED income_sheet
    /\ IncomeFrame

HandleIncomeDeleteConfirmation(u, t) ==
    /\ RoutedTo("handle_income_delete_confirmation", u, t)
    /\ IF t = YES
       THEN \E read_ok \in BOOLEAN, ok \in BOOLEAN :
               LET read == Call("get_all_values", NoRow, 0, read_ok)
                   last_row_index == Len(income_sheet)
               IN  IF ~read_ok
                   THEN /\ out' = Out("handle_income_delete_confirmation", u, <<Msg("Failed to process deletion. Please try again.")>>, <<read>>)
                        /\ UNCHANGED <<income_sheet, inc_data>>
                   ELSE IF Len(income_sheet) > 1
                   THEN /\ income_sheet' = IF ok THEN DeleteRows(income_sheet, last_row_index)
                                           ELSE income_sheet
                        /\ out' = Out("handle_income_delete_confirmation", u,
                              <<Msg(IF ok THEN "Last income entry deleted successfully!"
                                    ELSE "Failed to process deletion. Please try again.")>>,
                              <<read, Call("delete_income_row", NoRow, last_row_index, ok)>>)
                        /\ inc_data' = IF ok THEN Put(inc_data, u, EmptyDict) ELSE inc_data
                   ELSE /\ UNCHANGED income_sheet
                        /\ out' = Out("handle_income_delete_confirmation", u, <<Msg("No income entries to delete.")>>, <<read>>)
                        /\ inc_data' = Put(inc_data, u, EmptyDict)
       ELSE /\ UNCHANGED income_sheet
            /\ out' = Out("handle_income_delete_confirmation", u, <<Msg("Deletion cancelled.")>>, <<>>)
            /\ inc_data' = Put(inc_data, u, EmptyDict)
    /\ IncomeFrame

HandleBackToMain(u, t) ==
    /\ RoutedTo("handle_back_to_main", u, t)
    /\ inc_data' = Put(inc_data, u, InitialSession)
    /\ out' = Out("handle_back_to_main", u, <<Msg("Back to main menu:")>>, <<>>)
    /\ UNCHANGED income_sheet
    /\ IncomeFrame

IncomeEvent(u, t) ==
    \/ HandleIncomeCurrencySelection(u, t)
    \/ HandleIncomeValue(u, t)
    \/ HandleIncomeDescription(u, t)
    \/ HandleIncomeType(u, t)
    \/ HandleIncomeConfirmation(u, t)
    \/ ShowLastThreeIncomeEntries(u, t)
    \/ DeleteLastIncomeRowConfirm(u, t)
    \/ HandleIncomeDeleteConfirmation(u, t)
    \/ HandleBackToMain(u, t)

----------------------------------------------------------------------------
(* The bot as handlers/__init__.py builds it: ExpenseHandler and           *)
(* AnalyticsHandler on one dispatcher, each with its own user_data.        *)

VALUE_OK == <<"1", "5", "0", ".", "5", "0">>
VALUE_NAN == <<"n", "a", "n">>
VALUE_NEGATIVE == <<"-", "5">>
DESCRIPTION_OK == <<"g", "r", "o", "c", "e", "r", "i", "e", "s">>
DESCRIPTION_BLANK == <<" ", " ">>

\* init_database has returned the Database from its first attempt
Started == [pc |-> "returned", attempt |-> 0, waits |-> <<>>, has_income |-> TRUE]

NoOut == Out("None", 0, <<>>, <<>>)

\* the six steps of entering an expense
FlowEvent(u, t) ==
    \/ Start(u, t)
    \/ HandlePaymentType(u, t)
    \/ HandleValue(u, t)
    \/ HandleDescription(u, t)
    \/ HandleCategory(u, t)
    \/ HandleConfirmation(u, t)

Texts == { START_COMMAND, RUB_LABEL, RSD_LABEL, YES, NO,
           VALUE_OK, VALUE_NAN, VALUE_NEGATIVE, DESCRIPTION_OK, DESCRIPTION_BLANK,
           CATEGORIES[1] }

Senders == {1}

Init ==
    /\ user_data = EmptyDict
    /\ inc_data = EmptyDict
    /\ ana_data = EmptyDict
    /\ expense_sheet = <<EXPENSE_HEADERS>>
    /\ income_sheet = <<INCOME_HEADERS>>
    /\ dp = ExpenseHandlers \o AnalyticsHandlers
    /\ categories = CATEGORIES
    /\ now = 0
    /\ out = NoOut
    /\ pending = <<>>
    /\ boot = Started

Next == \E u \in Senders, t \in Texts : FlowEvent(u, t)

Spec == Init /\ [][Next]_vars

----------------------------------------------------------------------------
(* The entry points, with an unauthorized sender beside the authorized one *)

GateTexts == { START_COMMAND, HELP_COMMAND, RUB_LABEL, SHOW_ANALYTICS,
               VALUE_OK, CATEGORIES[1], YES }

GateSenders == {1, 3}

NextGate ==
    \E u \in GateSenders, t \in GateTexts :
        FlowEvent(u, t) \/ HelpCommand(u, t) \/ AnalyticsButton(u, t)

SpecGate == Init /\ [][NextGate]_vars

----------------------------------------------------------------------------
(* The bot with IncomeHandler registered after the other two, as the       *)
(* specification describes it                                              *)

IncomeFlowTexts == { START_COMMAND, RUB_LABEL, INCOME_RUB, VALUE_OK,
                     CATEGORIES[1], INCOME_TYPES[1], YES }

InitIncome ==
    /\ user_data = EmptyDict
    /\ inc_data = EmptyDict
    /\ ana_data = EmptyDict
    /\ expense_sheet = <<EXPENSE_HEADERS>>
    /\ income_sheet = <<INCOME_HEADERS>>
    /\ dp = ExpenseHandlers \o AnalyticsHandlers \o IncomeHandlers
    /\ categories = CATEGORIES
    /\ now = 0
    /\ out = NoOut
    /\ pending = <<>>
    /\ boot = Started

NextIncome ==
    \E u \in Senders, t \in IncomeFlowTexts :
        \/ FlowEvent(u, t)
        \/ HandleIncomeCurrencySelection(u, t)
        \/ HandleIncomeValue(u, t)
        \/ HandleIncomeDescription(u, t)
        \/ HandleIncomeType(u, t)
        \/ HandleIncomeConfirmation(u, t)

SpecIncome == InitIncome /\ [][NextIncome]_vars

----------------------------------------------------------------------------
(* The validators under many inputs: value and description texts sent to   *)
(* the first four steps of the expense flow                                *)

\* the decimal text of n tenths: "-0.5", "150.5", "10000000.1"
Tenths(n) ==
    LET a == IF n < 0 THEN -n ELSE n
    IN  (IF n < 0 THEN <<"-">> ELSE <<>>) \o IntToChars(a \div 10) \o <<".", DigitChar(a % 10)>>

TenthsSamples == { -50, -1, 0, 1, 5, 10, 1505, 99999999, 100000000, 100000001,
                   100000010, 999999999 }

\* an input text with what it denotes: a number in (0, MAX_VALUE], a number
\* outside it, no number, or the not-a-number float
ValueCase(text, class, val) == [text |-> text, class |-> class, val |-> val]

DecimalCases ==
    { ValueCase(Tenths(n),
                IF 0 < n /\ n <= 10 * MAX_VALUE THEN "in_range" ELSE "out_of_range",
                Normalize(n, -1)) : n \in TenthsSamples }

InRangeCases ==
    { ValueCase(VALUE_OK, "in_range", Normalize(1505, -1)),
      ValueCase(<<" ", "4", "2", " ">>, "in_range", Normalize(42, 0)),
      ValueCase(<<"+", "7">>, "in_range", Normalize(7, 0)),
      ValueCase(<<"1", "e", "3">>, "in_range", Normalize(1000, 0)),
      ValueCase(<<"1", "_", "0", "0", "0">>, "in_range", Normalize(1000, 0)),
      ValueCase(<<".", "5">>, "in_range", Normalize(5, -1)),
      ValueCase(<<"1", ".">>, "in_range", Normalize(1, 0)),
      ValueCase(<<"0", ".", "0", "1">>, "in_range", Normalize(1, -2)),
      ValueCase(<<"1", "E", "7">>, "in_range", Normalize(MAX_VALUE, 0)),
      ValueCase(IntToChars(MAX_VALUE), "in_range", Normalize(MAX_VALUE, 0)) }

OutOfRangeCases ==
    { ValueCase(t, "out_of_range", FloatErr) :
        t \in { IntToChars(MAX_VALUE + 1), <<"1", "e", "8">>, VALUE_NEGATIVE, <<"0">>,
                <<"-", "0", ".", "0">>, <<"0", "e", "5">>, <<"i", "n", "f">>,
                <<"-", "i", "n", "f">>, <<"I", "n", "f", "i", "n", "i", "t", "y">> } }

NonNumericCases ==
    { ValueCase(t, "non_numeric", FloatErr) :
        t \in { <<>>, DESCRIPTION_BLANK, <<"a", "b", "c">>, <<"1", ",", "5">>,
                <<"1", "2", "a">>, <<"-", "-", "5">>, <<"1", "_", "_", "0">>,
                <<"_", "1">>, <<"e", "5">>, <<".">>, <<"0", "x", "1", "0">>,
                <<"1", " ", "0", "0", "0">>, <<"1", "e">>, YES, CATEGORIES[1] } }

NanCases ==
    { ValueCase(t, "nan", FloatNan) :
        t \in { VALUE_NAN, <<"N", "a", "N">>, <<"-", "n", "a", "n">> } }

ValueCases == DecimalCases \cup InRangeCases \cup OutOfRangeCases \cup NanCases
                  \cup NonNumericCases

\* 199 characters and two trailing blanks: 201 untrimmed, 199 trimmed
DESCRIPTION_PADDED == Repeat("a", MAX_DESCRIPTION_LENGTH - 1) \o <<" ", " ">>

DescriptionTexts ==
    { DESCRIPTION_OK, <<" ">> \o DESCRIPTION_OK \o <<" ", " ">>, <<"a">>,
      <<"a", " ", "b">>, <<" ", " ", " ">>, <<"\t">>,
      Repeat("a", MAX_DESCRIPTION_LENGTH), Repeat("a", MAX_DESCRIPTION_LENGTH + 1),
      Repeat("a", MAX_DESCRIPTION_LENGTH - 1),
      DESCRIPTION_PADDED, <<" ">> \o Repeat("b", MAX_DESCRIPTION_LENGTH),
      Repeat(" ", MAX_DESCRIPTION_LENGTH + 1) }

ValidateTexts ==
    { START_COMMAND, RUB_LABEL } \cup { c.text : c \in ValueCases } \cup DescriptionTexts

NextValidate ==
    \E u \in Senders, t \in ValidateTexts :
        \/ Start(u, t)
        \/ HandlePaymentType(u, t)
        \/ HandleValue(u, t)
        \/ HandleDescription(u, t)

SpecValidate == Init /\ [][NextValidate]_vars

----------------------------------------------------------------------------
(* The utility triggers beside the expense flow: show last three, delete   *)
(* last, income menu.  The sheet starts with its header alone or with      *)
(* three rows entered earlier.                                             *)

\* a row entered before the bot started
SeedRow(n) ==
    << S(<<"2", "0", "2", "5", "-", "1", "2", "-", "3", "1">>),
       F([k |-> "num", m |-> n, e |-> 0]),
       S(<<"t", "e", "a">>), S(CATEGORIES[1]), S(RSD),
       S(<<"2", "0", "2", "5", "-", "1", "2">>), S(<<"a", "l", "i", "c", "e">>) >>

FullSheet == <<EXPENSE_HEADERS, SeedRow(1), SeedRow(2), SeedRow(3)>>

UtilityTexts == { START_COMMAND, RUB_LABEL, VALUE_OK, CATEGORIES[1], YES, NO,
                  SHOW_LAST_3, DELETE_LAST, INCOME_MENU }

InitUtility ==
    /\ user_data = EmptyDict
    /\ inc_data = EmptyDict
    /\ ana_data = EmptyDict
    /\ expense_sheet \in { <<EXPENSE_HEADERS>>, FullSheet }
    /\ income_sheet = <<INCOME_HEADERS>>
    /\ dp = ExpenseHandlers \o AnalyticsHandlers
    /\ categories = CATEGORIES
    /\ now = 0
    /\ out = NoOut
    /\ pending = <<>>
    /\ boot = Started

UtilityEvent(u, t) ==
    \/ FlowEvent(u, t)
    \/ ShowLastThreeEntries(u, t)
    \/ DeleteLastRowConfirm(u, t)
    \/ HandleDeleteConfirmation(u, t)
    \/ HandleIncomeMenu(u, t)

NextUtility == \E u \in Senders, t \in UtilityTexts : UtilityEvent(u, t)

SpecUtility == InitUtility /\ [][NextUtility]_vars

----------------------------------------------------------------------------
(* Two users on one expense sheet: user 1 starts and deletes the last row, *)
(* user 2 enters expenses meanwhile.                                       *)

StaleSenders == {1, 2}

StaleTexts(u) ==
    IF u = 1 THEN { START_COMMAND, DELETE_LAST, YES, NO }
    ELSE { RUB_LABEL, VALUE_OK, CATEGORIES[1], YES }

NextStale ==
    \E u \in StaleSenders : \E t \in StaleTexts(u) :
        \/ Start(u, t)
        \/ DeleteLastRowConfirm(u, t)
        \/ HandleDeleteConfirmation(u, t)
        \/ HandlePaymentType(u, t)
        \/ HandleValue(u, t)
        \/ HandleDescription(u, t)
        \/ HandleCategory(u, t)
        \/ HandleConfirmation(u, t)

SpecStale == Init /\ [][NextStale]_vars

----------------------------------------------------------------------------
(* The three handler groups on one dispatcher (IncomeHandler registered    *)
(* last, as the specification describes it): the menus, and the terminal   *)
(* transitions of the expense and income flows.                            *)

MenuTexts == { START_COMMAND, INCOME_MENU, BACK_TO_MAIN, RUB_LABEL, INCOME_RUB,
               VALUE_OK, SINGLE_CATEGORY, CATEGORIES[1] }

NextMenu ==
    \E u \in Senders, t \in MenuTexts :
        \/ Start(u, t)
        \/ HandlePaymentType(u, t)
        \/ HandleValue(u, t)
        \/ HandleDescription(u, t)
        \/ HandleCategory(u, t)
        \/ HandleIncomeMenu(u, t)
        \/ SingleCategoryChart(u, t)
        \/ HandleSingleCategorySelection(u, t)
        \/ HandleIncomeCurrencySelection(u, t)
        \/ HandleIncomeValue(u, t)
        \/ HandleIncomeDescription(u, t)
        \/ HandleBackToMain(u, t)

SpecMenu == InitIncome /\ [][NextMenu]_vars

TerminalTexts == { START_COMMAND, INCOME_RUB, VALUE_OK, INCOME_TYPES[1], YES, NO,
                   DELETE_LAST, DELETE_LAST_INCOME }

InitTerminal ==
    /\ user_data = EmptyDict
    /\ inc_data = EmptyDict
    /\ ana_data = EmptyDict
    /\ expense_sheet \in { <<EXPENSE_HEADERS>>, <<EXPENSE_HEADERS, SeedRow(1)>> }
    /\ income_sheet = <<INCOME_HEADERS>>
    /\ dp = ExpenseHandlers \o AnalyticsHandlers \o IncomeHandlers
    /\ categories = CATEGORIES
    /\ now = 0
    /\ out = NoOut
    /\ pending = <<>>
    /\ boot = Started

NextTerminal ==
    \E u \in Senders, t \in TerminalTexts :
        \/ Start(u, t)
        \/ DeleteLastRowConfirm(u, t)
        \/ HandleDeleteConfirmation(u, t)
        \/ HandleIncomeCurrencySelection(u, t)
        \/ HandleIncomeValue(u, t)
        \/ HandleIncomeDescription(u, t)
        \/ HandleIncomeType(u, t)
        \/ HandleIncomeConfirmation(u, t)
        \/ DeleteLastIncomeRowConfirm(u, t)
        \/ HandleIncomeDeleteConfirmation(u, t)

SpecTerminal == InitTerminal /\ [][NextTerminal]_vars

----------------------------------------------------------------------------
(* Two users entering expenses at once: the dispatcher takes their events  *)
(* from the queue in any order.                                            *)

PairSenders == {1, 2}

PairTexts == { START_COMMAND, RUB_LABEL, VALUE_OK, CATEGORIES[1], YES }

NextPair ==
    \E u \in PairSenders, t \in PairTexts : FlowEvent(u, t)

SpecPair == Init /\ [][NextPair]_vars

----------------------------------------------------------------------------
(* The flows with the clock advancing between a user's messages.           *)

\* a day passes: datetime.now() and date.today() return the next day
Tick ==
    /\ now < MaxDay
    /\ now' = now + 1
    /\ UNCHANGED <<user_data, inc_data, ana_data, expense_sheet, income_sheet, dp, categories, out, boot, pending>>

ClockTexts == { START_COMMAND, RUB_LABEL, VALUE_OK, CATEGORIES[1], YES }

NextClock ==
    \/ \E u \in Senders, t \in ClockTexts : FlowEvent(u, t)
    \/ Tick

SpecClock == Init /\ [][NextClock]_vars

IncomeClockTexts == { INCOME_RUB, VALUE_OK, INCOME_TYPES[1], YES }

NextIncomeClock ==
    \/ \E u \in Senders, t \in IncomeClockTexts :
          \/ HandleIncomeCurrencySelection(u, t)
          \/ HandleIncomeValue(u, t)
          \/ HandleIncomeDescription(u, t)
          \/ HandleIncomeType(u, t)
          \/ HandleIncomeConfirmation(u, t)
    \/ Tick

SpecIncomeClock == InitIncome /\ [][NextIncomeClock]_vars

----------------------------------------------------------------------------
(* Startup: init_database and Database._setup_google_sheets, a statement   *)
(* at a time.  Every call to the service either succeeds or raises; what   *)
(* _setup_google_sheets raises reaches init_database as GoogleSheetsError. *)

RECURSIVE Pow2(_)
Pow2(n) == IF n = 0 THEN 1 ELSE 2 * Pow2(n - 1)

BackoffConstant(attempt) == 1

\* time.sleep(2 ** attempt)
Backoff(attempt) == Pow2(attempt)

IncomeSeedRow ==
    << S(<<"2", "0", "2", "5", "-", "1", "2", "-", "3", "1">>),
       S(<<"9", "0", ".", "0">>), S(<<"t", "e", "a">>), S(INCOME_TYPES[1]), S(RSD),
       S(<<"2", "0", "2", "5", "-", "1", "2">>), S(<<"a", "l", "i", "c", "e">>) >>

StartupFrame == UNCHANGED <<user_data, inc_data, ana_data, expense_sheet, dp, categories, out, pending>>

\* the except clause of init_database
Caught ==
    IF boot.attempt = MAX_RETRIES - 1
    THEN boot' = [boot EXCEPT !.pc = "raised"]
    ELSE boot' = [boot EXCEPT !.pc = "sleep"]

\* a statement of _setup_google_sheets that touches no sheet
Statement(pc, next) ==
    /\ boot.pc = pc
    /\ \/ boot' = [boot EXCEPT !.pc = next]
       \/ Caught
    /\ UNCHANGED <<income_sheet, now>>
    /\ StartupFrame

Credentials == Statement("credentials", "authorize")
Authorize == Statement("authorize", "open")
OpenWorkbook == Statement("open", "worksheet")

\* workbook.worksheet("income")
Worksheet ==
    /\ boot.pc = "worksheet"
    /\ \/ boot' = [boot EXCEPT !.pc = IF boot.has_income THEN "returned" ELSE "add_worksheet"]
       \/ Caught
    /\ UNCHANGED <<income_sheet, now>>
    /\ StartupFrame

\* workbook.add_worksheet(title="income", ...)
AddWorksheet ==
    /\ boot.pc = "add_worksheet"
    /\ \/ /\ boot' = [boot EXCEPT !.pc = "append_headers", !.has_income = TRUE]
          /\ income_sheet' = <<>>
       \/ /\ Caught
          /\ UNCHANGED income_sheet
    /\ UNCHANGED now
    /\ StartupFrame

\* income_sheet.append_row(headers)
AppendHeaders ==
    /\ boot.pc = "append_headers"
    /\ \/ /\ boot' = [boot EXCEPT !.pc = "returned"]
          /\ income_sheet' = Append(income_sheet, INCOME_HEADERS)
       \/ /\ Caught
          /\ UNCHANGED income_sheet
    /\ UNCHANGED now
    /\ StartupFrame

\* time.sleep, then the next iteration of the loop
Sleep ==
    /\ boot.pc = "sleep"
    /\ boot' = [boot EXCEPT !.pc = "credentials", !.attempt = boot.attempt + 1,
                            !.waits = Append(boot.waits, Backoff(boot.attempt))]
    /\ UNCHANGED <<income_sheet, now>>
    /\ StartupFrame

InitStartup ==
    /\ user_data = EmptyDict
    /\ inc_data = EmptyDict
    /\ ana_data = EmptyDict
    /\ expense_sheet \in { <<EXPENSE_HEADERS>>, <<EXPENSE_HEADERS, SeedRow(1)>> }
    /\ \E has_income \in BOOLEAN :
          /\ boot = [pc |-> "credentials", attempt |-> 0, waits |-> <<>>, has_income |-> has_income]
          /\ income_sheet \in IF has_income
                              THEN { <<>>, <<INCOME_HEADERS>>, <<INCOME_HEADERS, IncomeSeedRow>> }
                              ELSE { <<>> }
    /\ dp = <<>>
    /\ categories = CATEGORIES
    /\ now = 0
    /\ out = NoOut
    /\ pending = <<>>

NextStartup ==
    \/ Credentials
    \/ Authorize
    \/ OpenWorkbook
    \/ Worksheet
    \/ AddWorksheet
    \/ AppendHeaders
    \/ Sleep

SpecStartup == InitStartup /\ [][NextStartup]_vars

----------------------------------------------------------------------------
(* The single-class Handlers of src/handlers.py: one user_data dict, and a *)
(* handle_payment_type that assigns its four keys in the session the user  *)
(* already has.  Its other expense handlers are those of ExpenseHandler.   *)

\* registration order; no action below sets step single_category_selection,
\* which this class keeps in the same dict
LegacyHandlers == << "start", "handle_payment_type", "handle_value",
    "handle_description", "handle_category", "handle_confirmation",
    "show_last_three_entries", "delete_last_row_confirm",
    "handle_delete_confirmation", "analytics_button", "back_button",
    "show_analytics_two_months", "single_category_chart",
    "handle_single_category_selection", "show_last_year_chart", "help_command" >>

LegacyPaymentTypeSession(u, t) ==
    SetKey(SetKey(SetKey(SetKey(user_data[u], "payment_type", FirstWord(t)),
        "date", FormatDate(now)), "year_month", FormatYearMonth(now)),
        "step", "value")

LegacyHandlePaymentType(u, t) ==
    /\ RoutedTo("handle_payment_type", u, t)
    /\ IF ~_is_authorized(u)
       THEN /\ out' = Out("handle_payment_type", u, <<Msg(UNAUTHORIZED)>>, <<>>)
            /\ UNCHANGED user_data
       ELSE IF u \notin DOMAIN user_data
       THEN /\ out' = Out("handle_payment_type", u, <<Msg("Please use /start command first")>>, <<>>)
            /\ UNCHANGED user_data
       ELSE /\ user_data' = Put(user_data, u, LegacyPaymentTypeSession(u, t))
            /\ out' = Out("handle_payment_type", u, <<Msg("Enter the value (amount):")>>, <<>>)
    /\ UNCHANGED expense_sheet
    /\ ExpenseFrame

LegacyTexts == { START_COMMAND, RUB_LABEL, VALUE_OK, CATEGORIES[1], YES, DELETE_LAST }

InitLegacy ==
    /\ user_data = EmptyDict
    /\ inc_data = EmptyDict
    /\ ana_data = EmptyDict
    /\ expense_sheet = <<EXPENSE_HEADERS>>
    /\ income_sheet = <<INCOME_HEADERS>>
    /\ dp = LegacyHandlers
    /\ categories = CATEGORIES
    /\ now = 0
    /\ out = NoOut
    /\ pending = <<>>
    /\ boot = Started

NextLegacy ==
    \E u \in Senders, t \in LegacyTexts :
        \/ Start(u, t)
        \/ LegacyHandlePaymentType(u, t)
        \/ HandleValue(u, t)
        \/ HandleDescription(u, t)
        \/ HandleCategory(u, t)
        \/ HandleConfirmation(u, t)
        \/ DeleteLastRowConfirm(u, t)
        \/ HandleDeleteConfirmation(u, t)

SpecLegacy == InitLegacy /\ [][NextLegacy]_vars

----------------------------------------------------------------------------
(* A user outside AUTHORIZED_USERS sends every trigger and reply text to   *)
(* the three handler groups while an authorized user enters and deletes    *)
(* expenses.  The step handlers of the income flow and of the category     *)
(* chart are left out: C29 shows their filters never accept the outsider.  *)

IntruderSenders == {1, 3}

IntruderTexts(u) ==
    IF u = 1
    THEN { RUB_LABEL, VALUE_OK, CATEGORIES[1], YES, DELETE_LAST }
    ELSE { START_COMMAND, HELP_COMMAND, RUB_LABEL, VALUE_OK, CATEGORIES[1], YES,
           SHOW_LAST_3, DELETE_LAST, INCOME_MENU,
           SHOW_ANALYTICS, BACK, TWO_MONTHS, SINGLE_CATEGORY, LAST_YEAR,
           INCOME_RUB, SHOW_LAST_3_INCOME, DELETE_LAST_INCOME, BACK_TO_MAIN }

NextIntruder ==
    \E u \in IntruderSenders : \E t \in IntruderTexts(u) :
        \/ ExpenseEvent(u, t)
        \/ AnalyticsButton(u, t)
        \/ BackButton(u, t)
        \/ ShowAnalyticsTwoMonths(u, t)
        \/ SingleCategoryChart(u, t)
        \/ ShowLastYearChart(u, t)
        \/ HandleIncomeCurrencySelection(u, t)
        \/ ShowLastThreeIncomeEntries(u, t)
        \/ DeleteLastIncomeRowConfirm(u, t)
        \/ HandleBackToMain(u, t)

SpecIntruder == InitIncome /\ [][NextIntruder]_vars

----------------------------------------------------------------------------
(* handle_confirmation at its await points.  The dispatcher starts the     *)
(* handler of the next update while an earlier handler is suspended at     *)
(* `await message.reply(...)`; the finally clause runs when the reply      *)
(* completes.  append_row is a blocking call and does not yield.           *)

Suspended(u, data, appended) ==
    [handler |-> "handle_confirmation", user |-> u, data |-> data, appended |-> appended]

\* from the filter to the awaited reply
ConfirmationDispatch(u, t) ==
    /\ RoutedTo("handle_confirmation", u, t)
    /\ Len(pending) < MaxInFlight
    /\ LET data == user_data[u]
       IN  IF t = YES /\ SummaryFields \subseteq DOMAIN data
           THEN \E ok \in BOOLEAN :
                   /\ Len(expense_sheet) + Len(income_sheet) < MaxRows \/ ~ok
                   /\ expense_sheet' = IF ok THEN Append(expense_sheet, ExpenseRow(data, u))
                                       ELSE expense_sheet
                   /\ out' = Out("handle_confirmation", u,
                         <<Msg(IF ok THEN "Expense recorded successfully!"
                               ELSE "Failed to record expense. Please try again later.")>>,
                         <<Call("append_row", ExpenseRow(data, u), 0, ok)>>)
                   /\ pending' = Append(pending, Suspended(u, data, ok))
           ELSE /\ UNCHANGED expense_sheet
                /\ out' = Out("handle_confirmation", u,
                      <<Msg(IF t = YES THEN "Failed to record expense. Please try again later."
                            ELSE "Expense recording cancelled. Choose payment type:")>>, <<>>)
                /\ pending' = Append(pending, Suspended(u, data, FALSE))
    /\ UNCHANGED <<user_data, inc_data, ana_data, income_sheet, dp, categories, now, boot>>

\* a reply completes and the finally clause of its handler runs
ConfirmationResume ==
    \E i \in 1..Len(pending) :
        /\ user_data' = Put(user_data, pending[i].user, InitialSession)
        /\ pending' = SubSeq(pending, 1, i - 1) \o SubSeq(pending, i + 1, Len(pending))
        /\ UNCHANGED <<inc_data, ana_data, expense_sheet, income_sheet, dp, categories, now, out, boot>>

AwaitTexts == { RUB_LABEL, VALUE_OK, CATEGORIES[1], YES, NO }

InitAwait ==
    /\ user_data = EmptyDict
    /\ inc_data = EmptyDict
    /\ ana_data = EmptyDict
    /\ expense_sheet = <<EXPENSE_HEADERS>>
    /\ income_sheet = <<>>
    /\ dp = ExpenseHandlers \o AnalyticsHandlers
    /\ categories = CATEGORIES
    /\ now = 0
    /\ out = NoOut
    /\ pending = <<>>
    /\ boot = Started

NextAwait ==
    \/ \E u \in Senders, t \in AwaitTexts :
          \/ HandlePaymentType(u, t)
          \/ HandleValue(u, t)
          \/ HandleDescription(u, t)
          \/ HandleCategory(u, t)
          \/ ConfirmationDispatch(u, t)
    \/ ConfirmationResume

SpecAwait == InitAwait /\ [][NextAwait]_vars

----------------------------------------------------------------------------
(* One user deleting the last income row while another records income.     *)

IncomeStaleTexts(u) ==
    IF u = 1 THEN { DELETE_LAST_INCOME, YES, NO }
    ELSE { INCOME_RUB, VALUE_OK, INCOME_TYPES[1], YES }

InitIncomeStale ==
    /\ user_data = EmptyDict
    /\ inc_data = EmptyDict
    /\ ana_data = EmptyDict
    /\ expense_sheet = <<>>
    /\ income_sheet = <<INCOME_HEADERS, IncomeSeedRow>>
    /\ dp = ExpenseHandlers \o AnalyticsHandlers \o IncomeHandlers
    /\ categories = CATEGORIES
    /\ now = 0
    /\ out = NoOut
    /\ pending = <<>>
    /\ boot = Started

NextIncomeStale ==
    \E u \in StaleSenders : \E t \in IncomeStaleTexts(u) :
        \/ DeleteLastIncomeRowConfirm(u, t)
        \/ HandleIncomeDeleteConfirmation(u, t)
        \/ HandleIncomeCurrencySelection(u, t)
        \/ HandleIncomeValue(u, t)
        \/ HandleIncomeDescription(u, t)
        \/ HandleIncomeType(u, t)
        \/ HandleIncomeConfirmation(u, t)

SpecIncomeStale == InitIncomeStale /\ [][NextIncomeStale]_vars

----------------------------------------------------------------------------
(* Both currency labels beside the expense flow and the utility triggers.  *)

CurrencyTexts == { START_COMMAND, RUB_LABEL, RSD_LABEL, VALUE_OK, CATEGORIES[1], YES,
                   DELETE_LAST, INCOME_MENU }

CurrencyEvent(u, t) ==
    \/ FlowEvent(u, t)
    \/ DeleteLastRowConfirm(u, t)
    \/ HandleDeleteConfirmation(u, t)
    \/ HandleIncomeMenu(u, t)

NextCurrency == \E u \in Senders, t \in CurrencyTexts : CurrencyEvent(u, t)

SpecCurrency == InitUtility /\ [][NextCurrency]_vars

----------------------------------------------------------------------------
(* The category keyboard under several configured category lists: the      *)
(* texts a user sends in the expense flow include every button the         *)
(* keyboard offers.                                                        *)

CategoryLists ==
    { CATEGORIES,
      << <<"f", "o", "o", "d">> >>,
      << <<"R", "e", "n", "t">>, <<"T", "V">> >> }

\* the button rows of create_category_keyboard(): capitalized categories,
\* three to a row
create_category_keyboard ==
    LET labels == [i \in 1..Len(categories) |-> Capitalize(categories[i])]
        nrows == (Len(labels) + 2) \div 3
    IN  [r \in 1..nrows |->
            SubSeq(labels, 3 * (r - 1) + 1,
                   IF 3 * r < Len(labels) THEN 3 * r ELSE Len(labels))]

ButtonsOf(keyboard) ==
    UNION { { keyboard[r][j] : j \in 1..Len(keyboard[r]) } : r \in 1..Len(keyboard) }

KeyboardTexts == { START_COMMAND, RUB_LABEL, VALUE_OK, YES }

InitKeyboard ==
    /\ user_data = EmptyDict
    /\ inc_data = EmptyDict
    /\ ana_data = EmptyDict
    /\ expense_sheet = <<EXPENSE_HEADERS>>
    /\ income_sheet = <<>>
    /\ dp = ExpenseHandlers \o AnalyticsHandlers
    /\ categories \in CategoryLists
    /\ now = 0
    /\ out = NoOut
    /\ pending = <<>>
    /\ boot = Started

NextKeyboard ==
    \E u \in Senders :
        \E t \in KeyboardTexts \cup ButtonsOf(create_category_keyboard) :
            FlowEvent(u, t)

SpecKeyboard == InitKeyboard /\ [][NextKeyboard]_vars

----------------------------------------------------------------------------
(* The income utilities over income sheets of every small size.            *)

IncomeSeed(n) ==
    << S(<<"2", "0", "2", "5", "-", "1", "2", "-", "3", "1">>),
       S(<<DigitChar(n), ".", "0">>), S(<<"t", "e", "a">>), S(INCOME_TYPES[1]), S(RSD),
       S(<<"2", "0", "2", "5", "-", "1", "2">>), S(<<"a", "l", "i", "c", "e">>) >>

SeededIncomeSheet(k) == <<INCOME_HEADERS>> \o [i \in 1..k |-> IncomeSeed(i)]

IncomeLastTexts == { INCOME_RUB, VALUE_OK, INCOME_TYPES[1], YES,
                     SHOW_LAST_3_INCOME, DELETE_LAST_INCOME }

InitIncomeLast ==
    /\ user_data = EmptyDict
    /\ inc_data = EmptyDict
    /\ ana_data = EmptyDict
    /\ expense_sheet = <<>>
    /\ income_sheet \in { SeededIncomeSheet(k) : k \in 0..4 }
    /\ dp = ExpenseHandlers \o AnalyticsHandlers \o IncomeHandlers
    /\ categories = CATEGORIES
    /\ now = 0
    /\ out = NoOut
    /\ pending = <<>>
    /\ boot = Started

NextIncomeLast ==
    \E u \in Senders, t \in IncomeLastTexts :
        \/ HandleIncomeCurrencySelection(u, t)
        \/ HandleIncomeValue(u, t)
        \/ HandleIncomeDescription(u, t)
        \/ HandleIncomeType(u, t)
        \/ HandleIncomeConfirmation(u, t)
        \/ ShowLastThreeIncomeEntries(u, t)
        \/ DeleteLastIncomeRowConfirm(u, t)
        \/ HandleIncomeDeleteConfirmation(u, t)

SpecIncomeLast == InitIncomeLast /\ [][NextIncomeLast]_vars

----------------------------------------------------------------------------
(* Properties *)

Unauthorized == GateSenders \ AUTHORIZED_USERS

SheetsUnchanged == expense_sheet' = expense_sheet /\ income_sheet' = income_sheet

\* C1: when an authorized user's expense flow reaches the confirmation and
\* the user answers 'Yes' (the store accepting the write), exactly one row is
\* appended to the expense sheet, it is (date, value, description, category,
\* payment_type, year_month, username) of the session in that order, nothing
\* is written to the income sheet, and the session is then exactly
\* {step: payment_type}.
C1_ConfirmedExpenseAppendsOneRow ==
    [][\A u \in Senders :
          (/\ HandleConfirmation(u, YES)
           /\ Len(out'.calls) = 1 /\ out'.calls[1].ok)
          => LET d == user_data[u]
             IN  /\ expense_sheet' = Append(expense_sheet,
                        << S(d.date), F(d.value), S(d.description), S(d.category),
                           S(d.payment_type), S(d.year_month), S(UsernameOf(u)) >>)
                 /\ income_sheet' = income_sheet
                 /\ user_data'[u] = [step |-> "payment_type"]]_vars

\* /start, 'RUB', "150.50", "groceries", "Food", 'Yes' on day 0 has been recorded
C1_Witness ==
    /\ out.handler = "handle_confirmation"
    /\ out.replies = <<Msg("Expense recorded successfully!")>>
    /\ expense_sheet = << EXPENSE_HEADERS,
          << S(<<"2", "0", "2", "6", "-", "0", "1", "-", "0", "1">>),
             F([k |-> "num", m |-> 1505, e |-> -1]),
             S(DESCRIPTION_OK), S(CATEGORIES[1]), S(RUB),
             S(<<"2", "0", "2", "6", "-", "0", "1">>),
             S(<<"a", "l", "i", "c", "e">>) >> >>
    /\ user_data[1] = [step |-> "payment_type"]

\* C2: answering 'No' at the confirmation appends no row, deletes no row,
\* and leaves the session exactly {step: payment_type}.
C2_CancelledExpenseWritesNothing ==
    [][\A u \in Senders :
          HandleConfirmation(u, NO)
          => /\ SheetsUnchanged
             /\ out'.calls = <<>>
             /\ user_data'[u] = [step |-> "payment_type"]]_vars

C2_Witness ==
    /\ out.handler = "handle_confirmation"
    /\ out.replies = <<Msg("Expense recording cancelled. Choose payment type:")>>
    /\ user_data[1] = [step |-> "payment_type"]
    /\ Len(expense_sheet) = 1

\* C3: for every input text the value step stores the number the text
\* denotes, as a number, when it lies in (0, MAX_VALUE], and raises a
\* validation error, leaving the session as it was, when the number is not
\* positive, exceeds MAX_VALUE, or the text is no number.
C3_ValueValidation ==
    [][\A u \in Senders, c \in ValueCases :
          HandleValue(u, c.text)
          => CASE c.class = "in_range" ->
                    /\ StepOf(user_data', u) = "description"
                    /\ user_data'[u].value = c.val
               [] c.class \in {"out_of_range", "non_numeric"} ->
                    /\ user_data' = user_data
                    /\ out'.replies \in { <<Msg("Value must be between 0 and MAX_VALUE")>>,
                                          <<Msg("Please enter a valid number")>> }
               [] OTHER -> TRUE]_vars

\* MAX_VALUE itself has been accepted and stored
C3_Witness ==
    /\ out.handler = "handle_value"
    /\ StepOf(user_data, 1) = "description"
    /\ user_data[1].value = [k |-> "num", m |-> 1, e |-> 7]

\* C4: a description is rejected exactly when it is empty after trimming or
\* its trimmed length exceeds MAX_DESCRIPTION_LENGTH; otherwise the trimmed
\* text is what the description step stores.
C4_DescriptionValidationByTrimmedLength ==
    [][\A u \in Senders, d \in DescriptionTexts :
          HandleDescription(u, d)
          => IF Len(Strip(d)) = 0 \/ Len(Strip(d)) > MAX_DESCRIPTION_LENGTH
             THEN user_data' = user_data
             ELSE /\ StepOf(user_data', u) = "category"
                  /\ user_data'[u].description = Strip(d)]_vars

InvalidValueTexts == { VALUE_NEGATIVE, DESCRIPTION_OK, DESCRIPTION_BLANK, YES, NO }

\* C5: an invalid value text sent in step value leaves the session in step
\* value with every field as it was and appends no row, however often it is
\* sent: the state it leaves is the state it was sent in.
C5_InvalidValueIdempotent ==
    [][\A u \in Senders, t \in InvalidValueTexts :
          HandleValue(u, t)
          => /\ user_data' = user_data
             /\ StepOf(user_data', u) = "value"
             /\ SheetsUnchanged
             /\ out'.calls = <<>>]_vars

C5_Witness ==
    /\ out = Out("handle_value", 1, <<Msg("Value must be between 0 and MAX_VALUE")>>, <<>>)
    /\ StepOf(user_data, 1) = "value"

\* C6: a category outside CATEGORIES sent in step category, and an income
\* type outside INCOME_TYPES sent in step income_type, is rejected with a
\* message: the step stays, no category or type field is stored, and no row
\* is appended.
C6_UnknownCategoryOrTypeRejected ==
    [][\A u \in Senders, t \in IncomeFlowTexts :
          /\ (~InList(t, CATEGORIES) /\ HandleCategory(u, t))
             => /\ out'.replies = <<Msg("Invalid category. Please choose a valid category.")>>
                /\ user_data' = user_data
                /\ StepOf(user_data', u) = "category"
                /\ "category" \notin DOMAIN user_data'[u]
                /\ SheetsUnchanged
          /\ (~InList(t, INCOME_TYPES) /\ HandleIncomeType(u, t))
             => /\ out'.replies = <<Msg("Invalid income type. Please choose a valid type.")>>
                /\ inc_data' = inc_data
                /\ StepOf(inc_data', u) = "income_type"
                /\ "type" \notin DOMAIN inc_data'[u]
                /\ SheetsUnchanged]_vars

C6_Witness ==
    /\ out = Out("handle_income_type", 1,
                 <<Msg("Invalid income type. Please choose a valid type.")>>, <<>>)
    /\ StepOf(inc_data, 1) = "income_type"

\* C7: /start from a user outside AUTHORIZED_USERS is answered with the
\* fixed rejection reply alone, creates no session for the user, and leaves
\* every existing session as it was.
C7_UnauthorizedStartRejected ==
    [][\A u \in Unauthorized, t \in GateTexts :
          Start(u, t)
          => /\ out'.replies = <<Msg(UNAUTHORIZED)>>
             /\ out'.calls = <<>>
             /\ user_data' = user_data
             /\ inc_data' = inc_data
             /\ ana_data' = ana_data
             /\ u \notin DOMAIN user_data']_vars

C7_Witness ==
    /\ out = Out("start", 3, <<Msg(UNAUTHORIZED)>>, <<>>)
    /\ 3 \notin DOMAIN user_data
    /\ StepOf(user_data, 1) = "description"

EntryPointTexts == { START_COMMAND, RUB_LABEL, SHOW_ANALYTICS, HELP_COMMAND }

\* C8: for a user outside AUTHORIZED_USERS each of /start, an expense
\* currency label, the analytics trigger and /help is answered with the
\* fixed rejection reply and no other, and changes no session.
C8_EveryEntryPointRejectsUnauthorized ==
    [][\A u \in Unauthorized, t \in EntryPointTexts :
          (FlowEvent(u, t) \/ HelpCommand(u, t) \/ AnalyticsButton(u, t))
          => /\ out'.replies = <<Msg(UNAUTHORIZED)>>
             /\ user_data' = user_data
             /\ inc_data' = inc_data
             /\ ana_data' = ana_data]_vars

\* C9: every row appended to the expense sheet has its category in
\* CATEGORIES, and every row appended to the income sheet has its type in
\* INCOME_TYPES.
C9_AppendedRowsHaveKnownCategoryOrType ==
    [][/\ Len(expense_sheet') > Len(expense_sheet)
          => InList(expense_sheet'[Len(expense_sheet')][4].s, CATEGORIES)
       /\ Len(income_sheet') > Len(income_sheet)
          => InList(income_sheet'[Len(income_sheet')][4].s, INCOME_TYPES)
       /\ \A i \in 1..Len(out'.calls) :
             /\ out'.calls[i].op = "append_row"
                => InList(out'.calls[i].row[4].s, CATEGORIES)
             /\ out'.calls[i].op = "append_income_row"
                => InList(out'.calls[i].row[4].s, INCOME_TYPES)]_vars

C9_Witness ==
    /\ out.handler = "handle_income_confirmation"
    /\ Len(out.calls) = 1 /\ out.calls[1].ok
    /\ Len(income_sheet) = 2
    /\ income_sheet[2][4] = S(INCOME_TYPES[1])

\* a finite number v with 0 < v <= MAX_VALUE (a mantissa has at most MaxDigits
\* digits, so any m * 10^e with e < -1 is below MAX_VALUE)
InValueRange(x) ==
    /\ x.k = "num"
    /\ x.m > 0
    /\ \/ x.e < -1
       \/ x.e = -1 /\ x.m <= MAX_VALUE * 10
       \/ x.e >= 0 /\ x.e <= 7 /\ x.m <= MAX_VALUE \div Pow10(x.e)

\* C10: whatever the events, the value a session holds and the value of
\* every row on the expense sheet is a finite number v with
\* 0 < v <= MAX_VALUE.
C10_StoredValuesFiniteAndInRange ==
    /\ \A u \in DOMAIN user_data :
          "value" \in DOMAIN user_data[u] => InValueRange(user_data[u].value)
    /\ \A i \in 2..Len(expense_sheet) : InValueRange(expense_sheet[i][2].x)

SessionsUnchanged == user_data' = user_data /\ inc_data' = inc_data /\ ana_data' = ana_data

\* C11: whenever handle_payment_type accepts a currency label the session
\* is replaced, not merged: afterwards it holds exactly payment_type, date,
\* year_month and step = value, whatever the session held before (value,
\* description, category, last_row_index or in_income_menu of a prior flow).
C11_PaymentTypeReplacesSession ==
    [][\A u \in Senders \cap AUTHORIZED_USERS, t \in UtilityTexts :
          HandlePaymentType(u, t)
          => /\ DOMAIN user_data'[u] = {"payment_type", "date", "year_month", "step"}
             /\ user_data'[u].step = "value"
             /\ user_data'[u].payment_type \in {RUB, RSD}]_vars

\* a currency label has been accepted and the session holds the four fields
C11_Witness ==
    /\ out.handler = "handle_payment_type"
    /\ out.replies # <<Msg(UNAUTHORIZED)>>
    /\ DOMAIN user_data[1] = {"payment_type", "date", "year_month", "step"}
    /\ Len(expense_sheet) = 2

\* C13: after handle_confirmation runs on 'Yes' or 'No' the session is
\* exactly {step: payment_type}, also when the store append raises; in that
\* case no row is added and the reply is the failure reply, not the success
\* reply.
C13_ExpenseConfirmationAlwaysResets ==
    [][\A u \in Senders, t \in {YES, NO} :
          HandleConfirmation(u, t)
          => /\ user_data'[u] = [step |-> "payment_type"]
             /\ (Len(out'.calls) = 1 /\ ~out'.calls[1].ok)
                => /\ SheetsUnchanged
                   /\ out'.replies =
                        <<Msg("Failed to record expense. Please try again later.")>>]_vars

C13_Witness ==
    /\ out.handler = "handle_confirmation"
    /\ Len(out.calls) = 1 /\ ~out.calls[1].ok
    /\ out.replies = <<Msg("Failed to record expense. Please try again later.")>>
    /\ user_data[1] = [step |-> "payment_type"]

ExpenseSteps == {"payment_type", "value", "description", "category", "confirmation",
                 "delete_confirmation"}

\* C18: for an authorized user whose expense session is in any step, the
\* show-last-three trigger is handled by show_last_three_entries and the
\* delete-last trigger by delete_last_row_confirm, never by the handler of
\* the current step.
C18_UtilityTriggersFromAnyStep ==
    [][\A u \in Senders \cap AUTHORIZED_USERS :
          StepOf(user_data, u) \in ExpenseSteps
          => /\ UtilityEvent(u, SHOW_LAST_3) => out'.handler = "show_last_three_entries"
             /\ UtilityEvent(u, DELETE_LAST) => out'.handler = "delete_last_row_confirm"]_vars

\* the last min(3, n) rows of a sheet, in sheet order
LastThree(rows) ==
    LET n == Len(rows)
        k == IF n < 3 THEN n ELSE 3
    IN  [i \in 1..k |-> rows[n - k + i]]

\* C19: show_last_three_entries leaves every session and both sheets as
\* they were, whether the read succeeds, returns no rows or raises; the rows
\* it reports are the last min(3, n) rows of the expense sheet in sheet
\* order.
C19_ShowLastThreeReadsOnly ==
    [][\A u \in Senders, t \in UtilityTexts :
          ShowLastThreeEntries(u, t)
          => /\ SessionsUnchanged
             /\ SheetsUnchanged
             /\ out'.calls[1].ok => out'.replies[1].data = LastThree(expense_sheet)]_vars

\* three of four rows have been reported
C19_Witness ==
    /\ out.handler = "show_last_three_entries"
    /\ out.calls[1].ok
    /\ Len(expense_sheet) = 4
    /\ out.replies[1].data = <<expense_sheet[2], expense_sheet[3], expense_sheet[4]>>

\* C20: the delete-last trigger on an expense sheet with no rows reports
\* that there is nothing to delete and stays: the session is unchanged, no
\* last_row_index is recorded and no delete is issued.
C20_DeleteLastOnEmptySheet ==
    [][\A u \in Senders :
          (/\ Len(expense_sheet) = 0
           /\ DeleteLastRowConfirm(u, DELETE_LAST)
           /\ out'.calls[1].ok)
          => /\ out'.replies = <<Msg("No data to delete.")>>
             /\ \A i \in 1..Len(out'.calls) : out'.calls[i].op # "delete_rows"
             /\ SessionsUnchanged
             /\ StepOf(user_data', u) # "delete_confirmation"
             /\ "last_row_index" \notin DOMAIN Get(user_data', u)
             /\ SheetsUnchanged]_vars

C20_Witness ==
    /\ out.handler = "delete_last_row_confirm"
    /\ out.replies = <<Msg("No data to delete.")>>
    /\ Len(expense_sheet) = 0
    /\ StepOf(user_data, 1) = "payment_type"

\* rows without the row at position n
WithoutRow(rows, n) ==
    [i \in 1..(Len(rows) - 1) |-> IF i < n THEN rows[i] ELSE rows[i + 1]]

IncomeSteps == { "income_value", "income_description", "income_type",
                 "income_confirmation", "income_delete_confirmation" }

\* C12: after an authorized /start no in-progress step of that user
\* (an income step, or single_category_selection) remains in the session
\* map of any of the three handlers.
C12_StartOverwritesEverySession ==
    [][\A u \in Senders \cap AUTHORIZED_USERS :
          Start(u, START_COMMAND)
          => /\ StepOf(user_data', u) = "payment_type"
             /\ StepOf(inc_data', u) \notin IncomeSteps
             /\ StepOf(ana_data', u) # "single_category_selection"]_vars

\* C14: when 'Yes' arrives in income_confirmation and the append to the
\* income sheet fails, the failure is reported and the session is no longer
\* in income_confirmation.
C14_IncomeConfirmationResetsOnStoreFailure ==
    [][\A u \in Senders :
          (/\ StepOf(inc_data, u) = "income_confirmation"
           /\ HandleIncomeConfirmation(u, YES)
           /\ Len(out'.calls) = 1
           /\ ~out'.calls[1].ok)
          => /\ out'.replies = <<Msg("Failed to process confirmation. Please try again.")>>
             /\ income_sheet' = income_sheet
             /\ StepOf(inc_data', u) # "income_confirmation"]_vars

\* C15: after Yes or No in expense confirmation, expense delete
\* confirmation, income confirmation and income delete confirmation, the
\* session the handler keeps for the user is exactly step = payment_type.
C15_TerminalTransitionsResetToInitial ==
    [][\A u \in Senders, t \in {YES, NO} :
          /\ (HandleConfirmation(u, t) \/ HandleDeleteConfirmation(u, t))
             => Get(user_data', u) = InitialSession
          /\ (HandleIncomeConfirmation(u, t) \/ HandleIncomeDeleteConfirmation(u, t))
             => Get(inc_data', u) = InitialSession]_vars

\* C16: once 'Back to Main' has been handled for an authorized user, each
\* expense currency label sent next is given to handle_payment_type.
C16_BackToMainReopensExpenseFlow ==
    \A u \in AUTHORIZED_USERS :
        (out.handler = "handle_back_to_main" /\ out.user = u)
        => \A label \in {RUB_LABEL, RSD_LABEL} :
              RoutedTo("handle_payment_type", u, label)

\* C21: in delete_confirmation 'Yes' issues exactly one delete, at the
\* captured position, and 'No' issues none; when the delete raises the sheet
\* is unchanged and the failure reply is sent; in every case the session
\* afterwards is exactly {step: payment_type}.
C21_DeleteConfirmationResets ==
    [][\A u \in Senders :
          StepOf(user_data, u) = "delete_confirmation"
          => /\ HandleDeleteConfirmation(u, YES)
                => /\ Len(out'.calls) = 1
                   /\ out'.calls[1].op = "delete_rows"
                   /\ out'.calls[1].index = user_data[u].last_row_index
                   /\ ~out'.calls[1].ok
                      => /\ SheetsUnchanged
                         /\ out'.replies = <<Msg("Failed to delete row. Please try again later.")>>
                   /\ user_data'[u] = [step |-> "payment_type"]
             /\ HandleDeleteConfirmation(u, NO)
                => /\ out'.calls = <<>>
                   /\ SheetsUnchanged
                   /\ out'.replies = <<Msg("Deletion cancelled.")>>
                   /\ user_data'[u] = [step |-> "payment_type"]]_vars

\* the store delete raised: the sheet is as seeded and the session is reset
C21_Witness ==
    /\ out.handler = "handle_delete_confirmation"
    /\ Len(out.calls) = 1
    /\ ~out.calls[1].ok
    /\ expense_sheet = FullSheet
    /\ user_data[1] = [step |-> "payment_type"]

SameEntry(d, e, v) ==
    /\ (v \in DOMAIN e) = (v \in DOMAIN d)
    /\ v \in DOMAIN d => e[v] = d[v]

\* C22: an event from one user never creates, changes or removes the
\* session entry of another user, in any handler's session map, whatever
\* the order in which the two users' events are handled.
C22_SessionsOfDistinctUsersIndependent ==
    [][\A v \in Users :
          out'.user # v
          => /\ SameEntry(user_data, user_data', v)
             /\ SameEntry(inc_data, inc_data', v)
             /\ SameEntry(ana_data, ana_data', v)]_vars

\* user 2 has confirmed an expense while user 1 waits in confirmation
C22_Witness ==
    /\ out.handler = "handle_confirmation"
    /\ out.user = 2
    /\ StepOf(user_data, 2) = "payment_type"
    /\ StepOf(user_data, 1) = "confirmation"
    /\ Len(expense_sheet) = 2

StampedSteps == {"value", "description", "category", "confirmation"}

LastRow(rows) == rows[Len(rows)]

\* C23: the date and year_month of an appended expense row are those read
\* from the clock when the currency label was accepted: the label stamps
\* the session with the current day, no later step of the flow changes the
\* stamp however far the clock advances, and 'Yes' appends a row carrying
\* the stamp, which is also the date the confirmation summary showed.
C23_ExpenseDateStampedAtFlowStart ==
    [][\A u \in Senders \cap AUTHORIZED_USERS :
          /\ (\E t \in {RUB_LABEL, RSD_LABEL} : HandlePaymentType(u, t))
             => /\ user_data'[u].date = FormatDate(now)
                /\ user_data'[u].year_month = FormatYearMonth(now)
          /\ (/\ StepOf(user_data, u) \in StampedSteps
              /\ StepOf(user_data', u) \in StampedSteps
              /\ out'.handler # "handle_payment_type")
             => /\ user_data'[u].date = user_data[u].date
                /\ user_data'[u].year_month = user_data[u].year_month
          /\ (/\ StepOf(user_data, u) = "category"
              /\ StepOf(user_data', u) = "confirmation")
             => /\ out'.replies[1].data[1][1] = S(user_data[u].date)
                /\ out'.replies[1].data[1][6] = S(user_data[u].year_month)
          /\ (/\ HandleConfirmation(u, YES)
              /\ Len(expense_sheet') = Len(expense_sheet) + 1)
             => /\ LastRow(expense_sheet')[1] = S(user_data[u].date)
                /\ LastRow(expense_sheet')[6] = S(user_data[u].year_month)]_vars

\* a row stamped on the first day has been appended on the last day
C23_Witness ==
    /\ now = MaxDay
    /\ out.handler = "handle_confirmation"
    /\ Len(expense_sheet) = 2
    /\ expense_sheet[2][1] = S(FormatDate(0))
    /\ expense_sheet[2][6] = S(FormatYearMonth(0))

\* C24: the date and year_month of an appended income row equal the date
\* the income confirmation summary showed, even if the clock advances
\* between the summary and 'Yes'.
C24_IncomeDateStampedAtFlowStart ==
    [][\A u \in Senders \cap AUTHORIZED_USERS :
          (/\ out.handler = "handle_income_type"
           /\ StepOf(inc_data, u) = "income_confirmation"
           /\ HandleIncomeConfirmation(u, YES)
           /\ Len(income_sheet') = Len(income_sheet) + 1)
          => LastRow(income_sheet')[1] = out.replies[1].data[1][1]]_vars

\* C25: whenever a user's session is in step confirmation it holds all of
\* date, value, description, category, payment_type and year_month, so the
\* row built on 'Yes' has its 7 fields; this is so after any sequence of
\* /start, currency labels, flow input, utility triggers and the income
\* menu trigger.
C25_ConfirmationSessionComplete ==
    \A u \in DOMAIN user_data :
        StepOf(user_data, u) = "confirmation"
        => /\ SummaryFields \subseteq DOMAIN user_data[u]
           /\ Len(ExpenseRow(user_data[u], u)) = 7

\* a utility trigger was answered while the session waited in confirmation
C25_Witness ==
    /\ StepOf(user_data, 1) = "confirmation"
    /\ out.handler = "show_last_three_entries"
    /\ SummaryFields \subseteq DOMAIN user_data[1]

\* C26: init_database makes at most MAX_RETRIES = 3 attempts, waits 1 then 2
\* time units between failed attempts, returns as soon as an attempt
\* succeeds, and raises only after the third attempt has failed; once it
\* has returned or raised it does nothing more.
C26_StartupRetriesBounded ==
    /\ boot.attempt \in 0..(MAX_RETRIES - 1)
    /\ Len(boot.waits) = boot.attempt
    /\ \A i \in 1..Len(boot.waits) : boot.waits[i] = <<1, 2>>[i]
    /\ boot.pc = "raised" => boot.attempt = MAX_RETRIES - 1
    /\ boot.pc = "sleep" => boot.attempt < MAX_RETRIES - 1
    /\ boot.pc \in {"returned", "raised"} => ~ENABLED NextStartup

\* the third attempt has failed after waits of 1 and 2: startup is aborted
C26_Witness ==
    /\ boot.pc = "raised"
    /\ boot.attempt = MAX_RETRIES - 1
    /\ boot.waits = <<1, 2>>

\* C28: once _setup_google_sheets has succeeded the income sheet begins with
\* the header row, whether the income worksheet was missing, empty or
\* already had its header.
C28_IncomeSheetBeginsWithHeader ==
    boot.pc = "returned"
    => /\ Len(income_sheet) >= 1
       /\ income_sheet[1] = INCOME_HEADERS

LeftoverFields == {"value", "description", "category", "last_row_index"}

\* C27: in the single-class Handlers, after handle_payment_type has accepted
\* a currency label the user's session holds none of value, description,
\* category and last_row_index.
C27_LegacyPaymentTypeReplacesSession ==
    [][\A u \in Senders \cap AUTHORIZED_USERS, t \in {RUB_LABEL, RSD_LABEL} :
          (u \in DOMAIN user_data /\ LegacyHandlePaymentType(u, t))
          => DOMAIN user_data'[u] \cap LeftoverFields = {}]_vars

WriteOps == {"append_row", "delete_rows", "append_income_row", "delete_income_row"}

\* C29: no event of a user outside AUTHORIZED_USERS makes an append or a
\* delete call on either sheet or changes a sheet, and such a user never
\* has an expense session, an income step or the category-chart step, so
\* no step handler ever accepts their messages.
C29_UnauthorizedNeverChangesSheets ==
    [][\A u \in Unauthorized :
          /\ u \notin DOMAIN user_data'
          /\ StepOf(inc_data', u) \notin IncomeSteps
          /\ StepOf(ana_data', u) # "single_category_selection"
          /\ out'.user = u
             => /\ SheetsUnchanged
                /\ \A i \in 1..Len(out'.calls) : out'.calls[i].op \notin WriteOps]_vars

\* the outsider asked to delete the row an authorized user had stored, after
\* 'Back to Main' had given them an income session: the request failed
C29_Witness ==
    /\ out.user = 3
    /\ out.handler = "delete_last_row_confirm"
    /\ out.replies = <<Msg("Failed to prepare deletion. Please try again later.")>>
    /\ 3 \in DOMAIN inc_data
    /\ Len(expense_sheet) = 2

\* C30: no reply to a user outside AUTHORIZED_USERS carries the fields of a
\* stored row.
C30_UnauthorizedNeverSeesRows ==
    out.user \in Unauthorized
    => \A i \in 1..Len(out.replies) : out.replies[i].data = <<>>

\* C31: while a handle_confirmation of a user that appended a row is still
\* suspended at its reply and the user's session is the one it read, a
\* second 'Yes' of that user appends no further row.
C31_InterleavedYesAppendsOnce ==
    [][\A u \in Senders :
          (/\ \E i \in 1..Len(pending) :
                 /\ pending[i].user = u
                 /\ pending[i].appended
                 /\ pending[i].data = Get(user_data, u)
           /\ ConfirmationDispatch(u, YES))
          => expense_sheet' = expense_sheet]_vars

\* C32: the row 'Yes' removes from the expense sheet is the row the user's
\* confirmation prompt showed: the prompt shows the row at the position it
\* stores, that position still holds the same row after any events in which
\* other users only append, and 'Yes' removes the row at that position.
C32_ExpenseDeleteRemovesShownRow ==
    [][\A u \in StaleSenders :
          LET k == user_data[u].last_row_index
          IN  /\ (/\ DeleteLastRowConfirm(u, DELETE_LAST)
                  /\ StepOf(user_data', u) = "delete_confirmation"
                  /\ out'.replies[1].data # <<>>)
                 => /\ user_data'[u].last_row_index <= Len(expense_sheet')
                    /\ out'.replies[1].data
                          = <<expense_sheet'[user_data'[u].last_row_index]>>
              /\ (/\ StepOf(user_data, u) = "delete_confirmation"
                  /\ StepOf(user_data', u) = "delete_confirmation"
                  /\ out'.user # u)
                 => /\ user_data'[u].last_row_index = k
                    /\ k <= Len(expense_sheet')
                    /\ expense_sheet'[k] = expense_sheet[k]
              /\ (/\ StepOf(user_data, u) = "delete_confirmation"
                  /\ HandleDeleteConfirmation(u, YES)
                  /\ Len(out'.calls) = 1
                  /\ out'.calls[1].ok)
                 => /\ Len(expense_sheet') = Len(expense_sheet) - 1
                    /\ \A i \in 1..Len(expense_sheet') :
                          expense_sheet'[i] = expense_sheet[IF i < k THEN i ELSE i + 1]]_vars

\* the row removed lay below a row another user appended after the prompt
C32_Witness ==
    /\ out.handler = "handle_delete_confirmation"
    /\ out.user = 1
    /\ Len(out.calls) = 1
    /\ out.calls[1].ok
    /\ out.calls[1].index <= Len(expense_sheet)
    /\ expense_sheet[out.calls[1].index][7] = S(NO_USERNAME)

\* C33: the row 'Yes' removes from the income sheet is the row the user's
\* confirmation prompt showed: the prompt shows the last row, the last row
\* is still that row after any events in which other users append income
\* rows, and 'Yes' removes the last row.
C33_IncomeDeleteRemovesShownRow ==
    [][\A u \in StaleSenders :
          /\ (/\ DeleteLastIncomeRowConfirm(u, DELETE_LAST_INCOME)
              /\ StepOf(inc_data', u) = "income_delete_confirmation"
              /\ out'.replies[1].data # <<>>)
             => out'.replies[1].data = <<LastRow(income_sheet')>>
          /\ (/\ StepOf(inc_data, u) = "income_delete_confirmation"
              /\ StepOf(inc_data', u) = "income_delete_confirmation"
              /\ out'.user # u)
             => LastRow(income_sheet') = LastRow(income_sheet)
          /\ (/\ StepOf(inc_data, u) = "income_delete_confirmation"
              /\ HandleIncomeDeleteConfirmation(u, YES)
              /\ Len(income_sheet') # Len(income_sheet))
             => income_sheet' = SubSeq(income_sheet, 1, Len(income_sheet) - 1)]_vars

\* C34: when the expense sheet holds only its header row, the delete-last
\* trigger followed by 'Yes' leaves the sheet unchanged.
C34_DeleteLastKeepsHeader ==
    [][\A u \in Senders :
          (/\ expense_sheet = <<EXPENSE_HEADERS>>
           /\ StepOf(user_data, u) = "delete_confirmation"
           /\ HandleDeleteConfirmation(u, YES))
          => expense_sheet' = expense_sheet]_vars

Min(a, b) == IF a < b THEN a ELSE b

\* C35: for an income sheet with a header row and k >= 1 data rows the
\* entries show_last_three_income_entries lists are exactly the last
\* min(3, k) data rows, and the header row is never among them.
C35_LastThreeIncomeAreDataRows ==
    (/\ out.handler = "show_last_three_income_entries"
     /\ Len(out.replies) = 1
     /\ out.replies[1].data # <<>>)
    => LET entries == out.replies[1].data
           k == Len(income_sheet) - 1
       IN  /\ Len(entries) = Min(3, k)
           /\ \A i \in 1..Len(entries) :
                 /\ entries[i] # INCOME_HEADERS
                 /\ entries[i] = income_sheet[Len(income_sheet) + 1 - i]

CurrencyLabels == {RUB_LABEL, RSD_LABEL}

\* C36: for an authorized user not in the income menu, a currency label
\* received in any expense step or with no session at all is given to
\* handle_payment_type and to no other handler, and handle_payment_type
\* leaves the session at step value with the sheets unchanged.
C36_CurrencyLabelWins ==
    [][\A u \in Senders \cap AUTHORIZED_USERS, t \in CurrencyLabels :
          ~InIncomeMenu(u)
          => /\ Route(u, t) = "handle_payment_type"
             /\ CurrencyEvent(u, t)
                => /\ out'.handler = "handle_payment_type"
                   /\ StepOf(user_data', u) = "value"
                   /\ user_data'[u] = PaymentTypeSession(u, t)
                   /\ SheetsUnchanged]_vars

C36_Witness ==
    \E u \in Senders \cap AUTHORIZED_USERS :
        /\ StepOf(user_data, u) = "delete_confirmation"
        /\ Len(expense_sheet) > 1
        /\ ~InIncomeMenu(u)
        /\ ENABLED HandlePaymentType(u, RSD_LABEL)

\* C37: when a user in step single_category_selection sends a text outside
\* CATEGORIES, handle_single_category_selection leaves the session in
\* single_category_selection, so that the next text reaches it again.
C37_InvalidCategoryCanBeRetried ==
    [][\A u \in Senders, t \in MenuTexts :
          (/\ StepOf(ana_data, u) = "single_category_selection"
           /\ ~InList(t, CATEGORIES)
           /\ HandleSingleCategorySelection(u, t))
          => StepOf(ana_data', u) = "single_category_selection"]_vars

\* C38: for every configured category list and every category c in it, the
\* label create_category_keyboard puts on the button for c, sent back as
\* the message text in step category, is accepted by handle_category, which
\* moves the session to confirmation with category c.
C38_EveryCategoryButtonAccepted ==
    [][\A u \in Senders, i \in 1..Len(categories) :
          LET c == categories[i]
              label == Capitalize(c)
          IN  (/\ label \in ButtonsOf(create_category_keyboard)
               /\ StepOf(user_data, u) = "category"
               /\ HandleCategory(u, label))
              => /\ StepOf(user_data', u) = "confirmation"
                 /\ user_data'[u].category = c]_vars

====
